---- MODULE Spec2Model ----
(***************************************************************************)
(* GlusterFS native share driver (manila.share.drivers.glusterfs_native)   *)
(* as exercised by manila/tests/share/drivers/test_glusterfs_native.py:    *)
(* the pool of backend volumes (_pop_gluster_vol / _push_gluster_vol),     *)
(* share deletion (_wipe_gluster_vol then _push_gluster_vol), the commands *)
(* of _wipe_gluster_vol one by one, and the auth.ssl-allow access list     *)
(* (allow_access / deny_access).                                           *)
(*                                                                         *)
(* Each worker of the share service is a process p with a program counter  *)
(* pc[p]; a driver call is entered from "idle", runs through its steps and *)
(* ends in "ret" with result[p] set; Return(p) hands the result back.      *)
(***************************************************************************)
EXTENDS Integers, Sequences, FiniteSets, TLC

VARIABLES
    voldict,            \* what _fetch_gluster_volumes returns: volume -> size
    gluster_used_vols,  \* driver.gluster_used_vols
    lock,               \* holder of the pool's mutual exclusion, or "free"
    shares,             \* history: volume -> number of live shares bound to it
    wipe_failed,        \* history: used volumes whose last wipe failed
    ssl_allow_opt,      \* backend: volume -> value of option auth.ssl-allow
    glusterfs_versions, \* driver.glusterfs_versions: server -> version
    vol_ssl,            \* backend: volume -> options client.ssl, server.ssl
    gluster_nosnap_vols_dict, \* driver: volumes known not to support snapshots
    backend_snapshot_name,    \* process -> snapshot name resolved by its call
    setup_versions,     \* process -> versions collected by its do_setup
    fetched,            \* process -> volumes its volume listing has collected
    fetch_ret,          \* process -> what its _fetch_gluster_volumes returned
    xml_out,            \* process -> (opRet, opErrno) its call parsed last
    list_out,           \* process -> output of its 'snapshot list' command
    srv_idx,            \* process -> index of the server its loop asks next
    filter_properties,  \* scheduler: the filter_properties given to the filter
    host_state,         \* scheduler: the host_state given to the filter
    passes_ret,         \* scheduler: what host_passes returned
    pc,                 \* process -> position in its current driver call
    call,               \* process -> the call it runs and its arguments
    vol,                \* process -> the volume its call selected / targets
    wiped,              \* process -> outcome of the wipe of its delete_share
    new_opt,            \* process -> the auth.ssl-allow value it will write
    log,                \* process -> remote commands issued by its call
    free_at,            \* history: process -> unused volumes seen by its pop
    result              \* process -> what its call returned or raised

vars == <<voldict, gluster_used_vols, lock, shares, wipe_failed, ssl_allow_opt,
          glusterfs_versions, vol_ssl, gluster_nosnap_vols_dict,
          backend_snapshot_name, setup_versions, fetched, fetch_ret, xml_out,
          list_out, srv_idx, filter_properties, host_state, passes_ret, pc, call, vol, wiped, new_opt, log, free_at, result>>

\* the locals of the snapshot and setup calls
lvars == <<backend_snapshot_name, setup_versions, fetched, fetch_ret, xml_out,
          list_out, srv_idx>>

\* the arguments and the result of a call of RetryFilter.host_passes
rvars == <<filter_properties, host_state, passes_ret>>

gvars == <<glusterfs_versions, vol_ssl, gluster_nosnap_vols_dict, lvars, rvars>>

poolvars == <<voldict, gluster_used_vols, lock, shares, wipe_failed>>

(***************************************************************************)
(* Bounds and fixtures                                                     *)
(***************************************************************************)
Vols == {"v1", "v2", "v3"}
Procs == {"p1", "p2"}

\* "size": None of the fixtures; a size that is None or 0 is falsy in Python
NoSize == 0
\* largest size a share request asks for
MaxSize == 2
\* largest size attribute a volume name carries
MaxVolSize == 2

VolSizes == {NoSize} \cup (1..MaxVolSize)
ReqSizes == {NoSize} \cup (1..MaxSize)

\* certificate common names; "cn0" plays 'some.common.name'
Principals == {"cn0", "cn1", "cn2"}
AccessTypes == {"cert", "invalid"}
\* the volumes whose shares receive access calls
AclVols == {"v1", "v2"}
Comma == ","

\* glusterfs_servers of the fixture, and the server each volume lives on
\* ('root@host1:/manila-share-1-1G', 'root@host2:/manila-share-2-2G',
\* 'root@host1:/share1')
Servers == {"host1", "host2"}
ServerOf(v) == IF v = "v2" THEN "host2" ELSE "host1"

\* a server whose version do_setup has not asked for yet
NoVersions == [s \in Servers |-> <<>>]
\* _fetch_gluster_volumes has not returned
NoReturn == [returned |-> FALSE, vols |-> {}]
\* host_passes has not returned
NoPasses == [returned |-> FALSE, value |-> FALSE]
\* a dictionary holds a set of keys and their values; retry is None or a
\* dictionary that may hold the list 'hosts' and the count 'num_attempts'
NoRetry == [none |-> TRUE, keys |-> {}, hosts |-> <<>>]
NoFilterProperties == [keys |-> {}, retry |-> NoRetry]
\* no XML output parsed
NoXml == [opRet |-> 0, opErrno |-> 0]

NoCall == [op |-> "none", size |-> NoSize, access_type |-> "none",
           access_to |-> "none", share_id |-> "none"]

(***************************************************************************)
(* auth.ssl-allow is one comma-joined string.  A string is a sequence of   *)
(* tokens: a common name is one token, Comma is the separator.             *)
(***************************************************************************)
Str(cn) == <<cn>>

\* Python: ','.join(l)
RECURSIVE Join(_)
Join(l) ==
    IF l = <<>> THEN <<>>
    ELSE IF Len(l) = 1 THEN l[1]
    ELSE l[1] \o <<Comma>> \o Join(Tail(l))

\* Python: s.split(',')   (''.split(',') is [''])
RECURSIVE Split(_)
Split(s) ==
    IF \A i \in 1..Len(s) : s[i] # Comma THEN <<s>>
    ELSE LET i == CHOOSE k \in 1..Len(s) :
                     s[k] = Comma /\ \A j \in 1..(k - 1) : s[j] # Comma
         IN  <<SubSeq(s, 1, i - 1)>> \o Split(SubSeq(s, i + 1, Len(s)))

\* Python: x in l
InList(l, x) == \E i \in 1..Len(l) : l[i] = x

\* a remove that cuts the list at x, losing the entries behind it
Remove_DropsTail(l, x) ==
    LET i == CHOOSE k \in 1..Len(l) :
                 l[k] = x /\ \A j \in 1..(k - 1) : l[j] # x
    IN  SubSeq(l, 1, i - 1)

\* Python: l.remove(x), x in l
Remove(l, x) ==
    LET i == CHOOSE k \in 1..Len(l) :
                 l[k] = x /\ \A j \in 1..(k - 1) : l[j] # x
    IN  SubSeq(l, 1, i - 1) \o SubSeq(l, i + 1, Len(l))

(***************************************************************************)
(* Pool of backend volumes                                                 *)
(***************************************************************************)

\* a pop that forgets to take the volumes in use out of the candidates
unused_vols_IgnoringUsed == Vols

\* _pop_gluster_vol: the volumes of voldict that are not in use
unused_vols == Vols \ gluster_used_vols

\* a pop that never compares the size of a volume with the requested one
Eligible_AnySize(v, s) == TRUE

\* a pop that takes a sized volume only for a request of exactly its size
Eligible_ExactOrUnsized(v, s) ==
    s = NoSize \/ voldict[v] = NoSize \/ voldict[v] = s

\* _pop_gluster_vol, as pinned by the rows of test_pop_gluster_vol and
\* test_pop_gluster_vol_excp: a volume can back a request of size s when no
\* size is asked for, when its name carries no size, or when its size is at
\* least s (size 2 serves a request of 1 and of 2, not of 3)
Eligible(v, s) == s = NoSize \/ voldict[v] = NoSize \/ voldict[v] >= s

\* acquire prefers a volume whose size is exactly the requested one, and
\* next to that a volume with no size attribute
Preferred(s) ==
    LET exact == {v \in unused_vols : s # NoSize /\ voldict[v] = s}
        unsized == {v \in unused_vols : voldict[v] = NoSize}
    IN  IF exact # {} THEN exact ELSE unsized

\* the volumes _pop_gluster_vol may pick for a request of size s: a preferred
\* one, else any unused volume that can back the request; which one of
\* several is not fixed (refresh order)
Candidates(s) ==
    IF Preferred(s) # {} THEN Preferred(s)
    ELSE {v \in unused_vols : Eligible(v, s)}

\* pool operations that do not exclude each other
LockAvailable_Unguarded(p) == TRUE

\* internal mutual exclusion of the pool operations
LockAvailable(p) == lock = "free"

\* the share service runs one operation at a time on a volume identity
SameIdentityExclusive(v) ==
    \A q \in Procs : ~(pc[q] \in {"wipe", "push_wait"} /\ vol[q] = v)

\* create_share(share): _pop_gluster_vol(share['size']) is called
CreateShare(p, s) ==
    /\ pc[p] = "idle"
    /\ pc' = [pc EXCEPT ![p] = "pop_wait"]
    /\ call' = [call EXCEPT ![p] = [NoCall EXCEPT !.op = "create_share",
                                                  !.size = s]]
    /\ UNCHANGED <<gvars, poolvars, ssl_allow_opt, vol, wiped, new_opt, log,
                   free_at, result>>

\* _pop_gluster_vol: fetch the volumes, pick an unused one or raise
PopEnter(p) ==
    /\ pc[p] = "pop_wait"
    /\ LockAvailable(p)
    /\ free_at' = [free_at EXCEPT ![p] = unused_vols]
    /\ IF Candidates(call[p].size) = {}
       THEN /\ pc' = [pc EXCEPT ![p] = "ret"]
            /\ result' = [result EXCEPT ![p] = "PoolExhausted"]
            /\ UNCHANGED <<lock, vol>>
       ELSE /\ \E v \in Candidates(call[p].size) :
                   vol' = [vol EXCEPT ![p] = v]
            /\ pc' = [pc EXCEPT ![p] = "pop_setup"]
            /\ lock' = p
            /\ UNCHANGED result
    /\ UNCHANGED <<gvars, voldict, gluster_used_vols, shares, wipe_failed,
                   ssl_allow_opt, call, wiped, new_opt, log>>

\* a pop that marks the volume used before its setup and does not undo it
PopSetup_MarksUsedOnFailure(p) ==
    /\ pc[p] = "pop_setup"
    /\ log' = [log EXCEPT ![p] = Append(@, "setup")]
    /\ \E ok \in BOOLEAN :
          IF ok
          THEN /\ pc' = [pc EXCEPT ![p] = "pop_add"]
               /\ UNCHANGED <<lock, result, gluster_used_vols>>
          ELSE /\ pc' = [pc EXCEPT ![p] = "ret"]
               /\ result' = [result EXCEPT ![p] = "VolumeSetupFailed"]
               /\ gluster_used_vols' = gluster_used_vols \cup {vol[p]}
               /\ lock' = "free"
    /\ UNCHANGED <<gvars, voldict, shares, wipe_failed, ssl_allow_opt, call, vol,
                   wiped, new_opt, free_at>>

\* _pop_gluster_vol: self._setup_gluster_vol(vol), which may raise
PopSetup(p) ==
    /\ pc[p] = "pop_setup"
    /\ log' = [log EXCEPT ![p] = Append(@, "setup")]
    /\ \E ok \in BOOLEAN :
          IF ok
          THEN /\ pc' = [pc EXCEPT ![p] = "pop_add"]
               /\ UNCHANGED <<lock, result>>
          ELSE /\ pc' = [pc EXCEPT ![p] = "ret"]
               /\ result' = [result EXCEPT ![p] = "VolumeSetupFailed"]
               /\ lock' = "free"
    /\ UNCHANGED <<gvars, voldict, gluster_used_vols, shares, wipe_failed,
                   ssl_allow_opt, call, vol, wiped, new_opt, free_at>>

\* a pop that returns the volume without recording it as used
PopAdd_NotMarkedUsed(p) ==
    /\ pc[p] = "pop_add"
    /\ shares' = [shares EXCEPT ![vol[p]] = @ + 1]
    /\ lock' = "free"
    /\ result' = [result EXCEPT ![p] = vol[p]]
    /\ pc' = [pc EXCEPT ![p] = "ret"]
    /\ UNCHANGED <<gvars, voldict, gluster_used_vols, wipe_failed, ssl_allow_opt,
                   call, vol, wiped, new_opt, log, free_at>>

\* _pop_gluster_vol: the volume joins gluster_used_vols and is returned
PopAdd(p) ==
    /\ pc[p] = "pop_add"
    /\ gluster_used_vols' = gluster_used_vols \cup {vol[p]}
    /\ shares' = [shares EXCEPT ![vol[p]] = @ + 1]
    /\ lock' = "free"
    /\ result' = [result EXCEPT ![p] = vol[p]]
    /\ pc' = [pc EXCEPT ![p] = "ret"]
    /\ UNCHANGED <<gvars, voldict, wipe_failed, ssl_allow_opt, call, vol, wiped,
                   new_opt, log, free_at>>

\* delete_share(share) of a share bound to v: the wipe starts
DeleteShare(p, v) ==
    /\ pc[p] = "idle"
    /\ shares[v] > 0
    /\ SameIdentityExclusive(v)
    /\ pc' = [pc EXCEPT ![p] = "wipe"]
    /\ call' = [call EXCEPT ![p] = [NoCall EXCEPT !.op = "delete_share"]]
    /\ vol' = [vol EXCEPT ![p] = v]
    /\ UNCHANGED <<gvars, poolvars, ssl_allow_opt, wiped, new_opt, log, free_at,
                   result>>

\* a delete_share that swallows the failure of the wipe and goes on to push
WipeEnd_PushAfterFailure(p) ==
    /\ pc[p] = "wipe"
    /\ log' = [log EXCEPT ![p] = Append(@, "wipe")]
    /\ \E ok \in BOOLEAN :
          /\ wiped' = [wiped EXCEPT ![p] = IF ok THEN "ok" ELSE "failed"]
          /\ wipe_failed' = IF ok THEN wipe_failed
                            ELSE wipe_failed \cup {vol[p]}
    /\ pc' = [pc EXCEPT ![p] = "push_wait"]
    /\ UNCHANGED <<gvars, voldict, gluster_used_vols, lock, shares, ssl_allow_opt,
                   call, vol, new_opt, free_at, result>>

\* a delete_share that gives the volume back to the pool when its wipe failed
WipeEnd_FreesOnFailure(p) ==
    /\ pc[p] = "wipe"
    /\ log' = [log EXCEPT ![p] = Append(@, "wipe")]
    /\ \E ok \in BOOLEAN :
          IF ok
          THEN /\ wiped' = [wiped EXCEPT ![p] = "ok"]
               /\ pc' = [pc EXCEPT ![p] = "push_wait"]
               /\ UNCHANGED <<wipe_failed, result, gluster_used_vols, shares>>
          ELSE /\ wiped' = [wiped EXCEPT ![p] = "failed"]
               /\ wipe_failed' = wipe_failed \cup {vol[p]}
               /\ gluster_used_vols' = gluster_used_vols \ {vol[p]}
               /\ shares' = [shares EXCEPT ![vol[p]] = 0]
               /\ result' = [result EXCEPT ![p] = "WipeFailed"]
               /\ pc' = [pc EXCEPT ![p] = "ret"]
    /\ UNCHANGED <<gvars, voldict, lock, ssl_allow_opt, call, vol, new_opt, free_at>>

\* delete_share: self._wipe_gluster_vol(gmgr) returns or raises; only when
\* it returned is _push_gluster_vol called
WipeEnd(p) ==
    /\ pc[p] = "wipe"
    /\ log' = [log EXCEPT ![p] = Append(@, "wipe")]
    /\ \E ok \in BOOLEAN :
          IF ok
          THEN /\ wiped' = [wiped EXCEPT ![p] = "ok"]
               /\ pc' = [pc EXCEPT ![p] = "push_wait"]
               /\ UNCHANGED <<wipe_failed, result>>
          ELSE /\ wiped' = [wiped EXCEPT ![p] = "failed"]
               /\ wipe_failed' = wipe_failed \cup {vol[p]}
               /\ result' = [result EXCEPT ![p] = "WipeFailed"]
               /\ pc' = [pc EXCEPT ![p] = "ret"]
    /\ UNCHANGED <<gvars, voldict, gluster_used_vols, lock, shares, ssl_allow_opt,
                   call, vol, new_opt, free_at>>

\* a direct call of _push_gluster_vol(exp_locn)
PushCall(p, v) ==
    /\ pc[p] = "idle"
    /\ pc' = [pc EXCEPT ![p] = "push_wait"]
    /\ call' = [call EXCEPT ![p] = [NoCall EXCEPT !.op = "push"]]
    /\ vol' = [vol EXCEPT ![p] = v]
    /\ UNCHANGED <<gvars, poolvars, ssl_allow_opt, wiped, new_opt, log, free_at,
                   result>>

\* a push that discards the identity and reports success whether or not it
\* was in use
PushEnter_Discard(p) ==
    /\ pc[p] = "push_wait"
    /\ LockAvailable(p)
    /\ gluster_used_vols' = gluster_used_vols \ {vol[p]}
    /\ shares' = [shares EXCEPT ![vol[p]] = IF @ > 0 THEN @ - 1 ELSE 0]
    /\ wipe_failed' = wipe_failed \ {vol[p]}
    /\ result' = [result EXCEPT ![p] = "ok"]
    /\ pc' = [pc EXCEPT ![p] = "ret"]
    /\ UNCHANGED <<gvars, voldict, lock, ssl_allow_opt, call, vol, wiped, new_opt,
                   log, free_at>>

\* _push_gluster_vol: remove exp_locn from gluster_used_vols, or raise when
\* it is not there
PushEnter(p) ==
    /\ pc[p] = "push_wait"
    /\ LockAvailable(p)
    /\ IF vol[p] \in gluster_used_vols
       THEN /\ gluster_used_vols' = gluster_used_vols \ {vol[p]}
            /\ shares' = [shares EXCEPT ![vol[p]] = IF @ > 0 THEN @ - 1 ELSE 0]
            /\ wipe_failed' = wipe_failed \ {vol[p]}
            /\ result' = [result EXCEPT ![p] = "ok"]
       ELSE /\ result' = [result EXCEPT ![p] = "VolumeNotManaged"]
            /\ UNCHANGED <<gluster_used_vols, shares, wipe_failed>>
    /\ pc' = [pc EXCEPT ![p] = "ret"]
    /\ UNCHANGED <<gvars, voldict, lock, ssl_allow_opt, call, vol, wiped, new_opt,
                   log, free_at>>

\* the call hands its result to the caller
Return(p) ==
    /\ pc[p] = "ret"
    /\ pc' = [pc EXCEPT ![p] = "idle"]
    /\ call' = [call EXCEPT ![p] = NoCall]
    /\ vol' = [vol EXCEPT ![p] = "none"]
    /\ wiped' = [wiped EXCEPT ![p] = "none"]
    /\ new_opt' = [new_opt EXCEPT ![p] = <<>>]
    /\ log' = [log EXCEPT ![p] = <<>>]
    /\ free_at' = [free_at EXCEPT ![p] = {}]
    /\ result' = [result EXCEPT ![p] = "none"]
    /\ backend_snapshot_name' = [backend_snapshot_name EXCEPT ![p] = "none"]
    /\ setup_versions' = [setup_versions EXCEPT ![p] = NoVersions]
    /\ fetched' = [fetched EXCEPT ![p] = {}]
    /\ fetch_ret' = [fetch_ret EXCEPT ![p] = NoReturn]
    /\ xml_out' = [xml_out EXCEPT ![p] = NoXml]
    /\ list_out' = [list_out EXCEPT ![p] = <<>>]
    /\ srv_idx' = [srv_idx EXCEPT ![p] = 1]
    /\ UNCHANGED <<glusterfs_versions, vol_ssl, gluster_nosnap_vols_dict,
                   rvars, poolvars, ssl_allow_opt>>

(***************************************************************************)
(* _wipe_gluster_vol(gluster_mgr): the commands of a wipe, in log[p]        *)
(***************************************************************************)

\* the version components that occur, as the strings 'gluster --version'
\* is parsed into
VersionDigits == <<"0", "1", "2", "3", "4", "5", "6", "7", "8", "9", "10">>

\* the versions a server may run: ('3', '6') and ('3', '7') of the fixtures,
\* and one older, one later minor and one later major release
VersionStrs == {<<"3", "5">>, <<"3", "6">>, <<"3", "7">>, <<"3", "10">>,
                <<"4", "0">>}

\* GlusterManager.numreduct: the components of a version as integers
numreduct(vers) ==
    [i \in DOMAIN vers |->
        (CHOOSE k \in 1..Len(VersionDigits) : VersionDigits[k] = vers[i]) - 1]

\* Python: a < b for two tuples of two integers
TupleLess(a, b) == a[1] < b[1] \/ (a[1] = b[1] /\ a[2] < b[2])

FindAll == "find tmpdir -mindepth 1 -delete"
FindKeepTrashcan ==
    "find tmpdir -mindepth 1 ! -path .trashcan ! -path .trashcan/internal_op -delete"

\* the delete command of a wipe on a server running vers: up to 3.6 all the
\* contents go, from 3.7 on the two directories GlusterFS keeps are spared
find_cmd(vers) ==
    IF TupleLess(numreduct(vers), <<3, 7>>) THEN FindAll ELSE FindKeepTrashcan

\* a direct call of _wipe_gluster_vol(gmgr) for the volume v
WipeCall(p, v) ==
    /\ pc[p] = "idle"
    /\ pc' = [pc EXCEPT ![p] = "w_client_off"]
    /\ call' = [call EXCEPT ![p] = [NoCall EXCEPT !.op = "wipe"]]
    /\ vol' = [vol EXCEPT ![p] = v]
    /\ UNCHANGED <<gvars, poolvars, ssl_allow_opt, wiped, new_opt, log, free_at,
                   result>>

\* gluster volume set <vol> <opt> <val> issued at position at: when it
\* succeeds the option is set and the wipe goes on at next, when it fails
\* the wipe raises
SslSet(p, at, opt, val, next) ==
    /\ pc[p] = at
    /\ log' = [log EXCEPT ![p] = Append(@, opt \o " " \o val)]
    /\ \E ok \in BOOLEAN :
          IF ok
          THEN /\ vol_ssl' = [vol_ssl EXCEPT ![vol[p]] =
                                 IF opt = "client.ssl"
                                 THEN [@ EXCEPT !.client = val]
                                 ELSE [@ EXCEPT !.server = val]]
               /\ pc' = [pc EXCEPT ![p] = next]
               /\ UNCHANGED <<result, wiped>>
          ELSE /\ result' = [result EXCEPT ![p] = "WipeFailed"]
               /\ wiped' = [wiped EXCEPT ![p] = "failed"]
               /\ pc' = [pc EXCEPT ![p] = "ret"]
               /\ UNCHANGED vol_ssl
    /\ UNCHANGED <<rvars, glusterfs_versions, gluster_nosnap_vols_dict, lvars,
                   poolvars, ssl_allow_opt, call, vol, new_opt, free_at>>

\* a set that lets the wipe go on when the command failed
SslSet_ContinuesAfterFailure(p, at, opt, val, next) ==
    /\ pc[p] = at
    /\ log' = [log EXCEPT ![p] = Append(@, opt \o " " \o val)]
    /\ \E ok \in BOOLEAN :
          vol_ssl' = IF ~ok THEN vol_ssl
                     ELSE [vol_ssl EXCEPT ![vol[p]] =
                              IF opt = "client.ssl"
                              THEN [@ EXCEPT !.client = val]
                              ELSE [@ EXCEPT !.server = val]]
    /\ pc' = [pc EXCEPT ![p] = next]
    /\ UNCHANGED <<rvars, glusterfs_versions, gluster_nosnap_vols_dict, lvars,
                   poolvars, ssl_allow_opt, call, vol, new_opt, free_at, result,
                   wiped>>

\* _wipe_gluster_vol: volume set <vol> client.ssl off
WipeClientSslOff(p) ==
    SslSet(p, "w_client_off", "client.ssl", "off", "w_server_off")

\* a wipe that goes on to the restart when server.ssl could not be set
WipeServerSslOff_ContinuesAfterFailure(p) ==
    SslSet_ContinuesAfterFailure(p, "w_server_off", "server.ssl", "off",
                                 "w_restart1")

\* a wipe that turns client.ssl back on when server.ssl could not be set
WipeServerSslOff_RestoresClientOnFailure(p) ==
    /\ pc[p] = "w_server_off"
    /\ \E ok \in BOOLEAN :
          IF ok
          THEN /\ log' = [log EXCEPT ![p] = Append(@, "server.ssl off")]
               /\ vol_ssl' = [vol_ssl EXCEPT ![vol[p]].server = "off"]
               /\ pc' = [pc EXCEPT ![p] = "w_restart1"]
               /\ UNCHANGED <<result, wiped>>
          ELSE /\ log' = [log EXCEPT ![p] =
                             @ \o <<"server.ssl off", "client.ssl on">>]
               /\ vol_ssl' = [vol_ssl EXCEPT ![vol[p]].client = "on"]
               /\ result' = [result EXCEPT ![p] = "WipeFailed"]
               /\ wiped' = [wiped EXCEPT ![p] = "failed"]
               /\ pc' = [pc EXCEPT ![p] = "ret"]
    /\ UNCHANGED <<rvars, glusterfs_versions, gluster_nosnap_vols_dict, lvars,
                   poolvars, ssl_allow_opt, call, vol, new_opt, free_at>>

\* _wipe_gluster_vol: volume set <vol> server.ssl off
WipeServerSslOff(p) ==
    SslSet(p, "w_server_off", "server.ssl", "off", "w_restart1")

\* _wipe_gluster_vol: common._restart_gluster_vol(gmgr) after the options
\* were reset
WipeRestart1(p) ==
    /\ pc[p] = "w_restart1"
    /\ log' = [log EXCEPT ![p] = Append(@, "restart")]
    /\ pc' = [pc EXCEPT ![p] = "w_mount"]
    /\ UNCHANGED <<gvars, poolvars, ssl_allow_opt, call, vol, wiped, new_opt,
                   free_at, result>>

\* a restart of the volume fails: the wipe ends with that failure
WipeRestartFail(p) ==
    /\ pc[p] \in {"w_restart1", "w_restart2"}
    /\ log' = [log EXCEPT ![p] = Append(@, "restart")]
    /\ result' = [result EXCEPT ![p] = "WipeFailed"]
    /\ wiped' = [wiped EXCEPT ![p] = "failed"]
    /\ pc' = [pc EXCEPT ![p] = "ret"]
    /\ UNCHANGED <<gvars, poolvars, ssl_allow_opt, call, vol, new_opt, free_at>>

\* a wipe that leaves its directory behind when the mount failed
WipeMount_KeepsDirectory(p) ==
    /\ pc[p] = "w_mount"
    /\ \E ok \in BOOLEAN :
          IF ok
          THEN /\ log' = [log EXCEPT ![p] = @ \o <<"mkdtemp", "mount">>]
               /\ pc' = [pc EXCEPT ![p] = "w_delete"]
               /\ UNCHANGED <<result, wiped>>
          ELSE /\ log' = [log EXCEPT ![p] = @ \o <<"mkdtemp", "mount">>]
               /\ result' = [result EXCEPT ![p] = "WipeFailed"]
               /\ wiped' = [wiped EXCEPT ![p] = "failed"]
               /\ pc' = [pc EXCEPT ![p] = "ret"]
    /\ UNCHANGED <<gvars, poolvars, ssl_allow_opt, call, vol, new_opt, free_at>>

\* _wipe_gluster_vol: tempfile.mkdtemp(), common._mount_gluster_vol(...);
\* when the mount fails the directory is removed and the wipe raises
WipeMount(p) ==
    /\ pc[p] = "w_mount"
    /\ \E ok \in BOOLEAN :
          IF ok
          THEN /\ log' = [log EXCEPT ![p] = @ \o <<"mkdtemp", "mount">>]
               /\ pc' = [pc EXCEPT ![p] = "w_delete"]
               /\ UNCHANGED <<result, wiped>>
          ELSE /\ log' = [log EXCEPT ![p] =
                             @ \o <<"mkdtemp", "mount", "rmtree">>]
               /\ result' = [result EXCEPT ![p] = "WipeFailed"]
               /\ wiped' = [wiped EXCEPT ![p] = "failed"]
               /\ pc' = [pc EXCEPT ![p] = "ret"]
    /\ UNCHANGED <<gvars, poolvars, ssl_allow_opt, call, vol, new_opt, free_at>>

\* a wipe that leaves the mount and its directory behind when the delete
\* failed
WipeDelete_SkipsCleanupOnFailure(p) ==
    /\ pc[p] = "w_delete"
    /\ log' = [log EXCEPT ![p] =
                  Append(@, find_cmd(glusterfs_versions[ServerOf(vol[p])]))]
    /\ \E ok \in BOOLEAN :
          IF ok
          THEN /\ pc' = [pc EXCEPT ![p] = "w_umount"]
               /\ UNCHANGED <<wiped, result>>
          ELSE /\ wiped' = [wiped EXCEPT ![p] = "delete_raised"]
               /\ result' = [result EXCEPT ![p] = "WipeFailed"]
               /\ pc' = [pc EXCEPT ![p] = "ret"]
    /\ UNCHANGED <<gvars, poolvars, ssl_allow_opt, call, vol, new_opt, free_at>>

\* a wipe that looks up the version of the first configured server, not of
\* the server the volume is on
WipeDelete_FirstServersVersion(p) ==
    /\ pc[p] = "w_delete"
    /\ log' = [log EXCEPT ![p] =
                  Append(@, find_cmd(glusterfs_versions["host1"]))]
    /\ \E ok \in BOOLEAN :
          wiped' = [wiped EXCEPT ![p] = IF ok THEN @ ELSE "delete_raised"]
    /\ pc' = [pc EXCEPT ![p] = "w_umount"]
    /\ UNCHANGED <<gvars, poolvars, ssl_allow_opt, call, vol, new_opt, free_at,
                   result>>

\* _wipe_gluster_vol: the find ... -delete command chosen by the version of
\* the volume's server is executed; when it fails the exception is raised
\* after the finally clause (WipeUmount) has run
WipeDelete(p) ==
    /\ pc[p] = "w_delete"
    /\ log' = [log EXCEPT ![p] =
                  Append(@, find_cmd(glusterfs_versions[ServerOf(vol[p])]))]
    /\ \E ok \in BOOLEAN :
          wiped' = [wiped EXCEPT ![p] = IF ok THEN @ ELSE "delete_raised"]
    /\ pc' = [pc EXCEPT ![p] = "w_umount"]
    /\ UNCHANGED <<gvars, poolvars, ssl_allow_opt, call, vol, new_opt, free_at,
                   result>>

\* a wipe that swallows the failure of the delete and goes on to set the
\* options back
WipeUmount_IgnoresDeleteFailure(p) ==
    /\ pc[p] = "w_umount"
    /\ \E ok \in BOOLEAN :
          IF ok
          THEN /\ log' = [log EXCEPT ![p] = @ \o <<"umount", "rmtree">>]
               /\ pc' = [pc EXCEPT ![p] = "w_client_on"]
               /\ UNCHANGED <<result, wiped>>
          ELSE /\ log' = [log EXCEPT ![p] = Append(@, "umount")]
               /\ result' = [result EXCEPT ![p] = "WipeFailed"]
               /\ wiped' = [wiped EXCEPT ![p] = "failed"]
               /\ pc' = [pc EXCEPT ![p] = "ret"]
    /\ UNCHANGED <<gvars, poolvars, ssl_allow_opt, call, vol, new_opt, free_at>>

\* _wipe_gluster_vol, the finally clause of the delete:
\* common._umount_gluster_vol(...) and then shutil.rmtree(tmpdir); a failing
\* unmount raises before the directory is removed; after the clause a
\* failed delete raises
WipeUmount(p) ==
    /\ pc[p] = "w_umount"
    /\ \E ok \in BOOLEAN :
          IF ok
          THEN /\ log' = [log EXCEPT ![p] = @ \o <<"umount", "rmtree">>]
               /\ IF wiped[p] = "delete_raised"
                  THEN /\ result' = [result EXCEPT ![p] = "WipeFailed"]
                       /\ pc' = [pc EXCEPT ![p] = "ret"]
                  ELSE /\ pc' = [pc EXCEPT ![p] = "w_client_on"]
                       /\ UNCHANGED result
               /\ UNCHANGED wiped
          ELSE /\ log' = [log EXCEPT ![p] = Append(@, "umount")]
               /\ result' = [result EXCEPT ![p] = "WipeFailed"]
               /\ wiped' = [wiped EXCEPT ![p] = "failed"]
               /\ pc' = [pc EXCEPT ![p] = "ret"]
    /\ UNCHANGED <<gvars, poolvars, ssl_allow_opt, call, vol, new_opt, free_at>>

\* a wipe that goes on to server.ssl when client.ssl could not be set back
WipeClientSslOn_ContinuesAfterFailure(p) ==
    SslSet_ContinuesAfterFailure(p, "w_client_on", "client.ssl", "on",
                                 "w_server_on")

\* a wipe whose first command of the restore sets server.ssl
WipeClientSslOn_SetsServer(p) ==
    SslSet(p, "w_client_on", "server.ssl", "on", "w_server_on")

\* _wipe_gluster_vol: volume set <vol> client.ssl on
WipeClientSslOn(p) ==
    SslSet(p, "w_client_on", "client.ssl", "on", "w_server_on")

\* a wipe that returns after server.ssl is set back, without the restart
WipeServerSslOn_NoRestart(p) ==
    SslSet(p, "w_server_on", "server.ssl", "on", "ret")

\* _wipe_gluster_vol: volume set <vol> server.ssl on
WipeServerSslOn(p) ==
    SslSet(p, "w_server_on", "server.ssl", "on", "w_restart2")

\* _wipe_gluster_vol: common._restart_gluster_vol(gmgr) after the options
\* were set back; the wipe returns
WipeRestart2(p) ==
    /\ pc[p] = "w_restart2"
    /\ log' = [log EXCEPT ![p] = Append(@, "restart")]
    /\ result' = [result EXCEPT ![p] = "ok"]
    /\ wiped' = [wiped EXCEPT ![p] = "ok"]
    /\ pc' = [pc EXCEPT ![p] = "ret"]
    /\ UNCHANGED <<gvars, poolvars, ssl_allow_opt, call, vol, new_opt, free_at>>

(***************************************************************************)
(* Snapshots: create_snapshot, delete_snapshot                             *)
(***************************************************************************)

\* most lines a snapshot listing of the backend has
MaxLines == 2

\* snapshot['id'] of the calls, the names the backend gives its snapshots
\* ('fake_snap_id_xyz', 'fake_snap_id_pqr') and a line with no name in it
\* ('this is too bad'); a line is a sequence of tokens
SnapId == "fake_snap_id"
SnapLines == {<<SnapId, "_xyz">>, <<SnapId, "_pqr">>,
              <<"this", "is", "too", "bad">>}
Newline == "\n"

\* Python: '\n'.join(lines)
RECURSIVE JoinLines(_)
JoinLines(ls) ==
    IF ls = <<>> THEN <<>>
    ELSE IF Len(ls) = 1 THEN ls[1]
    ELSE ls[1] \o <<Newline>> \o JoinLines(Tail(ls))

\* Python: out.split("\n")
RECURSIVE SplitLines(_)
SplitLines(out) ==
    IF \A i \in 1..Len(out) : out[i] # Newline THEN <<out>>
    ELSE LET i == CHOOSE k \in 1..Len(out) :
                     out[k] = Newline /\ \A j \in 1..(k - 1) : out[j] # Newline
         IN  <<SubSeq(out, 1, i - 1)>>
                 \o SplitLines(SubSeq(out, i + 1, Len(out)))

\* what 'gluster snapshot list <vol> --mode=script' may print: up to
\* MaxLines lines, or nothing
SnapListOutputs ==
    {JoinLines(ls) : ls \in UNION {[1..n -> SnapLines] : n \in 0..MaxLines}}

\* Python: snapshot['id'] in line
IdIn(line) == \E i \in 1..Len(line) : line[i] = SnapId

\* the (opRet, opErrno) pairs of the XML outputs of the fixtures
XmlOuts == {[opRet |-> 0, opErrno |-> 0], [opRet |-> -1, opErrno |-> 0],
            [opRet |-> -1, opErrno |-> 2]}

\* create_snapshot / delete_snapshot(context, snapshot) of a snapshot of
\* the share on volume v is called
SnapCall(p, op, v) ==
    /\ pc[p] = "idle"
    /\ pc' = [pc EXCEPT ![p] = IF op = "create_snapshot" THEN "sn_create"
                                ELSE "sn_list"]
    /\ call' = [call EXCEPT ![p] = [NoCall EXCEPT !.op = op]]
    /\ vol' = [vol EXCEPT ![p] = v]
    /\ UNCHANGED <<gvars, poolvars, ssl_allow_opt, wiped, new_opt, log, free_at,
                   result>>

\* a create_snapshot that never looks into gluster_nosnap_vols_dict
NoSnapCached_Never(v) == FALSE

\* create_snapshot: vol in self.gluster_nosnap_vols_dict
NoSnapCached(v) == v \in gluster_nosnap_vols_dict

\* a create_snapshot that reports every feature-absent failure as not
\* supported, whatever the version
SoftFailure_AnyVersion(vers, operrno) == operrno = 0

\* create_snapshot, opRet -1: the failure is ShareSnapshotNotSupported when
\* the server runs a version above 3.6 and opErrno is 0, else it is a
\* GlusterfsException
SoftFailure(vers, operrno) ==
    TupleLess(<<3, 6>>, numreduct(vers)) /\ operrno = 0

\* a create_snapshot that marks the volume whatever its command returned
MarkNoSnap_Always(v, soft) == gluster_nosnap_vols_dict \cup {v}

\* self.gluster_nosnap_vols_dict[vol] = operrstr: the volume is marked when
\* its create command failed softly
MarkNoSnap(v, soft) ==
    IF soft THEN gluster_nosnap_vols_dict \cup {v} ELSE gluster_nosnap_vols_dict

\* a create_snapshot that refuses a server below 3.7 without asking it
CreateSnapshot_RefusesBelowMinimum(p) ==
    /\ pc[p] = "sn_create"
    /\ \E out \in IF \/ NoSnapCached(vol[p])
                     \/ TupleLess(numreduct(glusterfs_versions[ServerOf(vol[p])]),
                                  <<3, 7>>)
                  THEN {[opRet |-> -1, opErrno |-> 0]} ELSE XmlOuts :
          LET soft == SoftFailure(glusterfs_versions[ServerOf(vol[p])],
                                  out.opErrno)
          IN  /\ log' = [log EXCEPT ![p] =
                     IF \/ NoSnapCached(vol[p])
                        \/ TupleLess(
                               numreduct(glusterfs_versions[ServerOf(vol[p])]),
                               <<3, 7>>)
                     THEN @ ELSE Append(@, "snapshot create")]
              /\ xml_out' = [xml_out EXCEPT ![p] = out]
              /\ gluster_nosnap_vols_dict' =
                     MarkNoSnap(vol[p], out.opRet = -1 /\ soft)
              /\ result' = [result EXCEPT ![p] =
                     IF out.opRet # -1 THEN "ok"
                     ELSE IF soft THEN "SnapshotNotSupported"
                     ELSE "SnapshotFailed"]
    /\ pc' = [pc EXCEPT ![p] = "ret"]
    /\ UNCHANGED <<rvars, glusterfs_versions, vol_ssl, backend_snapshot_name,
                   setup_versions, fetched, fetch_ret, list_out, srv_idx,
                   poolvars, ssl_allow_opt, call, vol, wiped, new_opt, free_at>>

\* create_snapshot: with a marker for the volume the result is taken from
\* the marker, (-1, 0), and no command is issued; else 'snapshot create' is
\* issued and its XML output parsed.  opRet -1: a soft failure marks the
\* volume and raises ShareSnapshotNotSupported, any other raises
\* GlusterfsException
CreateSnapshot(p) ==
    /\ pc[p] = "sn_create"
    /\ \E out \in IF NoSnapCached(vol[p])
                  THEN {[opRet |-> -1, opErrno |-> 0]} ELSE XmlOuts :
          LET soft == SoftFailure(glusterfs_versions[ServerOf(vol[p])],
                                  out.opErrno)
          IN  /\ log' = [log EXCEPT ![p] = IF NoSnapCached(vol[p]) THEN @
                                           ELSE Append(@, "snapshot create")]
              /\ xml_out' = [xml_out EXCEPT ![p] = out]
              /\ gluster_nosnap_vols_dict' =
                     MarkNoSnap(vol[p], out.opRet = -1 /\ soft)
              /\ result' = [result EXCEPT ![p] =
                     IF out.opRet # -1 THEN "ok"
                     ELSE IF soft THEN "SnapshotNotSupported"
                     ELSE "SnapshotFailed"]
    /\ pc' = [pc EXCEPT ![p] = "ret"]
    /\ UNCHANGED <<rvars, glusterfs_versions, vol_ssl, backend_snapshot_name,
                   setup_versions, fetched, fetch_ret, list_out, srv_idx,
                   poolvars, ssl_allow_opt, call, vol, wiped, new_opt, free_at>>

\* a line as one string
RECURSIVE LineStr(_)
LineStr(line) == IF line = <<>> THEN "" ELSE Head(line) \o LineStr(Tail(line))

\* the lines of a listing that hold the id of the snapshot
snapgrep(out) == SelectSeq(SplitLines(out), IdIn)

\* a lookup that takes the first of several candidates
SnapList_TakesFirstMatch(p) ==
    /\ pc[p] = "sn_list"
    /\ log' = [log EXCEPT ![p] = Append(@, "snapshot list")]
    /\ \E out \in SnapListOutputs :
          /\ list_out' = [list_out EXCEPT ![p] = out]
          /\ IF Len(snapgrep(out)) >= 1
             THEN /\ backend_snapshot_name' =
                         [backend_snapshot_name EXCEPT ![p] =
                             LineStr(snapgrep(out)[1])]
                  /\ pc' = [pc EXCEPT ![p] =
                               IF call[p].op = "delete_snapshot"
                               THEN "sn_delete" ELSE "cfs_activate"]
                  /\ UNCHANGED result
             ELSE /\ result' = [result EXCEPT ![p] = "AmbiguousSnapshot"]
                  /\ pc' = [pc EXCEPT ![p] = "ret"]
                  /\ UNCHANGED backend_snapshot_name
    /\ UNCHANGED <<rvars, glusterfs_versions, vol_ssl, gluster_nosnap_vols_dict,
                   setup_versions, fetched, fetch_ret, xml_out, srv_idx,
                   poolvars, ssl_allow_opt, call, vol, wiped, new_opt, free_at>>

\* _find_actual_backend_snapshot_name: 'snapshot list <vol> --mode=script'
\* is issued; the lines holding snapshot['id'] are the candidates, and
\* anything but a single candidate raises
SnapList(p) ==
    /\ pc[p] = "sn_list"
    /\ log' = [log EXCEPT ![p] = Append(@, "snapshot list")]
    /\ \E out \in SnapListOutputs :
          /\ list_out' = [list_out EXCEPT ![p] = out]
          /\ IF Len(snapgrep(out)) = 1
             THEN /\ backend_snapshot_name' =
                         [backend_snapshot_name EXCEPT ![p] =
                             LineStr(snapgrep(out)[1])]
                  /\ pc' = [pc EXCEPT ![p] =
                               IF call[p].op = "delete_snapshot"
                               THEN "sn_delete" ELSE "cfs_activate"]
                  /\ UNCHANGED result
             ELSE /\ result' = [result EXCEPT ![p] = "AmbiguousSnapshot"]
                  /\ pc' = [pc EXCEPT ![p] = "ret"]
                  /\ UNCHANGED backend_snapshot_name
    /\ UNCHANGED <<rvars, glusterfs_versions, vol_ssl, gluster_nosnap_vols_dict,
                   setup_versions, fetched, fetch_ret, xml_out, srv_idx,
                   poolvars, ssl_allow_opt, call, vol, wiped, new_opt, free_at>>

\* delete_snapshot: 'snapshot delete <name> --mode=script' is issued with
\* the resolved name; an output that is empty, or whose opRet is not 0,
\* raises
SnapDelete(p) ==
    /\ pc[p] = "sn_delete"
    /\ log' = [log EXCEPT ![p] =
                  Append(@, "snapshot delete " \o backend_snapshot_name[p])]
    /\ \E empty \in BOOLEAN, out \in XmlOuts :
          /\ xml_out' = [xml_out EXCEPT ![p] = IF empty THEN @ ELSE out]
          /\ result' = [result EXCEPT ![p] =
                           IF ~empty /\ out.opRet = 0 THEN "ok"
                           ELSE "SnapshotFailed"]
    /\ pc' = [pc EXCEPT ![p] = "ret"]
    /\ UNCHANGED <<rvars, glusterfs_versions, vol_ssl, gluster_nosnap_vols_dict,
                   backend_snapshot_name, setup_versions, fetched, fetch_ret,
                   list_out, srv_idx, poolvars, ssl_allow_opt, call, vol, wiped, new_opt,
                   free_at>>

(***************************************************************************)
(* create_share_from_snapshot(context, share, snapshot)                    *)
(***************************************************************************)

\* share['id'] of the shares created from a snapshot
ShareIds == {"sh1", "sh2"}

\* the export location of the volume cloned for share id on the server of
\* the old volume: '<host>:/manila-<share id>'
NewLocation(srv, id) == srv \o ":/manila-" \o id
NewLocations == {NewLocation(s, id) : s \in Servers, id \in ShareIds}

\* a create_share_from_snapshot that does not look at the version
CfsCall_NoVersionCheck(p, v, id) ==
    /\ pc[p] = "idle"
    /\ call' = [call EXCEPT ![p] =
                   [NoCall EXCEPT !.op = "create_share_from_snapshot",
                                  !.share_id = id]]
    /\ vol' = [vol EXCEPT ![p] = v]
    /\ pc' = [pc EXCEPT ![p] = "sn_list"]
    /\ UNCHANGED <<gvars, poolvars, ssl_allow_opt, wiped, new_opt, log, free_at,
                   result>>

\* create_share_from_snapshot is called for a snapshot of the share on
\* volume v: a server version below 3.7 raises before anything is asked of
\* the backend
CfsCall(p, v, id) ==
    /\ pc[p] = "idle"
    /\ call' = [call EXCEPT ![p] =
                   [NoCall EXCEPT !.op = "create_share_from_snapshot",
                                  !.share_id = id]]
    /\ vol' = [vol EXCEPT ![p] = v]
    /\ IF TupleLess(numreduct(glusterfs_versions[ServerOf(v)]), <<3, 7>>)
       THEN /\ result' = [result EXCEPT ![p] = "SnapshotFailed"]
            /\ pc' = [pc EXCEPT ![p] = "ret"]
       ELSE /\ pc' = [pc EXCEPT ![p] = "sn_list"]
            /\ UNCHANGED result
    /\ UNCHANGED <<gvars, poolvars, ssl_allow_opt, wiped, new_opt, log,
                   free_at>>

\* old_gmgr.gluster_call('snapshot', 'activate', name, 'force',
\* '--mode=script')
CfsActivate(p) ==
    /\ pc[p] = "cfs_activate"
    /\ log' = [log EXCEPT ![p] = Append(@, "old: snapshot activate force")]
    /\ \E ok \in BOOLEAN :
          IF ok
          THEN /\ pc' = [pc EXCEPT ![p] = "cfs_clone"]
               /\ UNCHANGED result
          ELSE /\ result' = [result EXCEPT ![p] = "SnapshotFailed"]
               /\ pc' = [pc EXCEPT ![p] = "ret"]
    /\ UNCHANGED <<gvars, poolvars, ssl_allow_opt, call, vol, wiped, new_opt,
                   free_at>>

\* a clone whose failure is not noticed
CfsClone_ContinuesAfterFailure(p) ==
    /\ pc[p] = "cfs_clone"
    /\ log' = [log EXCEPT ![p] =
                  Append(@, "old: snapshot clone manila-" \o call[p].share_id)]
    /\ \E ok \in BOOLEAN :
          /\ pc' = [pc EXCEPT ![p] = "cfs_set"]
          /\ result' = [result EXCEPT ![p] =
                           IF ok THEN @ ELSE "SnapshotFailed"]
    /\ UNCHANGED <<gvars, poolvars, ssl_allow_opt, call, vol, wiped, new_opt,
                   free_at>>

\* old_gmgr.gluster_call('snapshot', 'clone', 'manila-' + share['id'], name)
CfsClone(p) ==
    /\ pc[p] = "cfs_clone"
    /\ log' = [log EXCEPT ![p] =
                  Append(@, "old: snapshot clone manila-" \o call[p].share_id)]
    /\ \E ok \in BOOLEAN :
          IF ok
          THEN /\ pc' = [pc EXCEPT ![p] = "cfs_set"]
               /\ UNCHANGED result
          ELSE /\ result' = [result EXCEPT ![p] = "SnapshotFailed"]
               /\ pc' = [pc EXCEPT ![p] = "ret"]
    /\ UNCHANGED <<gvars, poolvars, ssl_allow_opt, call, vol, wiped, new_opt,
                   free_at>>

\* the new volume carries the options of the old one: auth.ssl-allow is read
\* from it and set to its first entry, the common name of the servers
CfsSetSslAllow(p) ==
    /\ pc[p] = "cfs_set"
    /\ new_opt' = [new_opt EXCEPT ![p] = Split(ssl_allow_opt[vol[p]])[1]]
    /\ log' = [log EXCEPT ![p] =
                  @ \o <<"new: get auth.ssl-allow", "new: set auth.ssl-allow">>]
    /\ \E ok \in BOOLEAN :
          IF ok
          THEN /\ pc' = [pc EXCEPT ![p] = "cfs_start"]
               /\ UNCHANGED result
          ELSE /\ result' = [result EXCEPT ![p] = "SnapshotFailed"]
               /\ pc' = [pc EXCEPT ![p] = "ret"]
    /\ UNCHANGED <<gvars, poolvars, ssl_allow_opt, call, vol, wiped, free_at>>

\* a start that records a version for the export location of the new volume
CfsStart_RecordsVersion(p) ==
    /\ pc[p] = "cfs_start"
    /\ log' = [log EXCEPT ![p] = Append(@, "new: volume start")]
    /\ \E ok \in BOOLEAN :
          LET export == NewLocation(ServerOf(vol[p]), call[p].share_id)
          IN  /\ glusterfs_versions' =
                     [k \in DOMAIN glusterfs_versions \cup {export} |->
                         glusterfs_versions[ServerOf(vol[p])]]
              /\ IF ok
                 THEN /\ gluster_used_vols' = gluster_used_vols \cup {export}
                      /\ result' = [result EXCEPT ![p] = export]
                 ELSE /\ result' = [result EXCEPT ![p] = "SnapshotFailed"]
                      /\ UNCHANGED gluster_used_vols
    /\ pc' = [pc EXCEPT ![p] = "ret"]
    /\ UNCHANGED <<vol_ssl, gluster_nosnap_vols_dict, lvars, rvars, voldict,
                   lock, shares, wipe_failed, ssl_allow_opt, call, vol, wiped,
                   new_opt, free_at>>

\* a start that registers the new volume whether it started or not
CfsStart_RegistersOnFailure(p) ==
    /\ pc[p] = "cfs_start"
    /\ log' = [log EXCEPT ![p] = Append(@, "new: volume start")]
    /\ \E ok \in BOOLEAN :
          LET export == NewLocation(ServerOf(vol[p]), call[p].share_id)
          IN  /\ gluster_used_vols' = gluster_used_vols \cup {export}
              /\ result' = [result EXCEPT ![p] =
                               IF ok THEN export ELSE "SnapshotFailed"]
    /\ pc' = [pc EXCEPT ![p] = "ret"]
    /\ UNCHANGED <<gvars, voldict, lock, shares, wipe_failed, ssl_allow_opt,
                   call, vol, wiped, new_opt, free_at>>

\* gmgr.gluster_call('volume', 'start', gmgr.volume); once the volume has
\* started its export location is added to gluster_used_vols and returned
CfsStart(p) ==
    /\ pc[p] = "cfs_start"
    /\ log' = [log EXCEPT ![p] = Append(@, "new: volume start")]
    /\ \E ok \in BOOLEAN :
          LET export == NewLocation(ServerOf(vol[p]), call[p].share_id)
          IN  IF ok
              THEN /\ gluster_used_vols' = gluster_used_vols \cup {export}
                   /\ result' = [result EXCEPT ![p] = export]
              ELSE /\ result' = [result EXCEPT ![p] = "SnapshotFailed"]
                   /\ UNCHANGED gluster_used_vols
    /\ pc' = [pc EXCEPT ![p] = "ret"]
    /\ UNCHANGED <<gvars, voldict, lock, shares, wipe_failed, ssl_allow_opt,
                   call, vol, wiped, new_opt, free_at>>

(***************************************************************************)
(* do_setup(context) and _fetch_gluster_volumes()                          *)
(***************************************************************************)

\* configuration.glusterfs_servers, in the order of the option
glusterfs_servers == <<"host1", "host2">>

\* GLUSTERFS_VERSION_MIN
GLUSTERFS_VERSION_MIN == <<3, 6>>

\* get_gluster_version raised GlusterfsException for the server
VersionFailed == <<"GlusterfsException">>

\* glusterfs_volume_pattern 'manila-share-\d+-#{size}G$': the volumes the
\* pattern matches are those named with a size ('share1' is not one)
PatternMatch(v) == voldict[v] # NoSize

\* do_setup is called
SetupCall(p) ==
    /\ pc[p] = "idle"
    /\ pc' = [pc EXCEPT ![p] = "su_version"]
    /\ call' = [call EXCEPT ![p] = [NoCall EXCEPT !.op = "do_setup"]]
    /\ UNCHANGED <<gvars, poolvars, ssl_allow_opt, vol, wiped, new_opt, log,
                   free_at, result>>

\* do_setup: get_gluster_version of the next server in glusterfs_servers.
\* Its version is kept; a GlusterfsException is kept too and the next
\* server is asked; any other exception ends do_setup at once
SetupGetVersion(p) ==
    /\ pc[p] = "su_version"
    /\ LET s == glusterfs_servers[srv_idx[p]]
       IN  /\ log' = [log EXCEPT ![p] = Append(@, "version " \o s)]
           /\ \/ \E vers \in VersionStrs \cup {VersionFailed} :
                    /\ setup_versions' = [setup_versions EXCEPT ![p][s] = vers]
                    /\ srv_idx' = [srv_idx EXCEPT ![p] = @ + 1]
                    /\ pc' = [pc EXCEPT ![p] =
                                 IF srv_idx[p] = Len(glusterfs_servers)
                                 THEN "su_check" ELSE "su_version"]
                    /\ UNCHANGED result
              \/ /\ result' = [result EXCEPT ![p] = "RuntimeError"]
                 /\ pc' = [pc EXCEPT ![p] = "ret"]
                 /\ UNCHANGED <<setup_versions, srv_idx>>
    /\ UNCHANGED <<rvars, glusterfs_versions, vol_ssl, gluster_nosnap_vols_dict,
                   backend_snapshot_name, fetched, fetch_ret, xml_out, list_out,
                   poolvars, ssl_allow_opt, call, vol, wiped, new_opt, free_at>>

\* a do_setup that goes on without the servers whose query failed
SetupCheckVersions_IgnoresFailedQuery(p) ==
    /\ pc[p] = "su_check"
    /\ IF \E s \in Servers :
              /\ setup_versions[p][s] # VersionFailed
              /\ TupleLess(numreduct(setup_versions[p][s]),
                           GLUSTERFS_VERSION_MIN)
       THEN /\ result' = [result EXCEPT ![p] = "UnsupportedBackendVersion"]
            /\ pc' = [pc EXCEPT ![p] = "ret"]
            /\ UNCHANGED <<glusterfs_versions, srv_idx>>
       ELSE /\ glusterfs_versions' = setup_versions[p]
            /\ srv_idx' = [srv_idx EXCEPT ![p] = 1]
            /\ pc' = [pc EXCEPT ![p] = "fetch"]
            /\ UNCHANGED result
    /\ UNCHANGED <<rvars, vol_ssl, gluster_nosnap_vols_dict,
                   backend_snapshot_name,
                   setup_versions, fetched, fetch_ret, xml_out, list_out,
                   poolvars, ssl_allow_opt, call, vol, wiped, new_opt, log,
                   free_at>>

\* a do_setup that accepts any version
SetupCheckVersions_AnyVersion(p) ==
    /\ pc[p] = "su_check"
    /\ IF \E s \in Servers : setup_versions[p][s] = VersionFailed
       THEN /\ result' = [result EXCEPT ![p] = "BackendUnavailable"]
            /\ pc' = [pc EXCEPT ![p] = "ret"]
            /\ UNCHANGED <<glusterfs_versions, srv_idx>>
       ELSE /\ glusterfs_versions' = setup_versions[p]
            /\ srv_idx' = [srv_idx EXCEPT ![p] = 1]
            /\ pc' = [pc EXCEPT ![p] = "fetch"]
            /\ UNCHANGED result
    /\ UNCHANGED <<rvars, vol_ssl, gluster_nosnap_vols_dict,
                   backend_snapshot_name,
                   setup_versions, fetched, fetch_ret, xml_out, list_out,
                   poolvars, ssl_allow_opt, call, vol, wiped, new_opt, log,
                   free_at>>

\* do_setup, all servers asked: a failed query raises; a version below
\* GLUSTERFS_VERSION_MIN raises; else the versions become
\* self.glusterfs_versions and the volumes are fetched
SetupCheckVersions(p) ==
    /\ pc[p] = "su_check"
    /\ IF \E s \in Servers : setup_versions[p][s] = VersionFailed
       THEN /\ result' = [result EXCEPT ![p] = "BackendUnavailable"]
            /\ pc' = [pc EXCEPT ![p] = "ret"]
            /\ UNCHANGED <<glusterfs_versions, srv_idx>>
       ELSE IF \E s \in Servers : TupleLess(numreduct(setup_versions[p][s]),
                                            GLUSTERFS_VERSION_MIN)
       THEN /\ result' = [result EXCEPT ![p] = "UnsupportedBackendVersion"]
            /\ pc' = [pc EXCEPT ![p] = "ret"]
            /\ UNCHANGED <<glusterfs_versions, srv_idx>>
       ELSE /\ glusterfs_versions' = setup_versions[p]
            /\ srv_idx' = [srv_idx EXCEPT ![p] = 1]
            /\ pc' = [pc EXCEPT ![p] = "fetch"]
            /\ UNCHANGED result
    /\ UNCHANGED <<rvars, vol_ssl, gluster_nosnap_vols_dict,
                   backend_snapshot_name,
                   setup_versions, fetched, fetch_ret, xml_out, list_out,
                   poolvars, ssl_allow_opt, call, vol, wiped, new_opt, log,
                   free_at>>

\* _fetch_gluster_volumes is called
FetchCall(p) ==
    /\ pc[p] = "idle"
    /\ pc' = [pc EXCEPT ![p] = "fetch"]
    /\ call' = [call EXCEPT ![p] =
                   [NoCall EXCEPT !.op = "_fetch_gluster_volumes"]]
    /\ UNCHANGED <<gvars, poolvars, ssl_allow_opt, vol, wiped, new_opt, log,
                   free_at, result>>

\* a do_setup that goes on with whatever _fetch_gluster_volumes returned
AfterFetch_AcceptsEmptyPool(p, vols) ==
    IF call[p].op = "do_setup"
    THEN /\ result' = [result EXCEPT ![p] = "ok"]
         /\ log' = [log EXCEPT ![p] =
               @ \o <<"volume list " \o glusterfs_servers[srv_idx[p]],
                      "mount.glusterfs">>]
    ELSE /\ result' = [result EXCEPT ![p] = "ok"]
         /\ log' = [log EXCEPT ![p] =
               Append(@, "volume list " \o glusterfs_servers[srv_idx[p]])]

\* what the caller of _fetch_gluster_volumes goes on with: do_setup raises
\* when no volume came back, else it checks that mount.glusterfs is there
AfterFetch(p, vols) ==
    IF call[p].op = "do_setup"
    THEN IF vols = {}
         THEN /\ result' = [result EXCEPT ![p] = "BackendUnavailable"]
              /\ log' = [log EXCEPT ![p] =
                    Append(@, "volume list "
                                  \o glusterfs_servers[srv_idx[p]])]
         ELSE /\ result' = [result EXCEPT ![p] = "ok"]
              /\ log' = [log EXCEPT ![p] =
                    @ \o <<"volume list " \o glusterfs_servers[srv_idx[p]],
                           "mount.glusterfs">>]
    ELSE /\ result' = [result EXCEPT ![p] = "ok"]
         /\ log' = [log EXCEPT ![p] =
               Append(@, "volume list " \o glusterfs_servers[srv_idx[p]])]

\* a _fetch_gluster_volumes that hands out what it has when a listing fails
FetchList_KeepsPartialPool(p) ==
    /\ pc[p] = "fetch"
    /\ LET s == glusterfs_servers[srv_idx[p]]
       IN  \/ \E listed \in SUBSET {v \in Vols : ServerOf(v) = s} :
                 LET vols == fetched[p] \cup {v \in listed : PatternMatch(v)}
                 IN  /\ fetched' = [fetched EXCEPT ![p] = vols]
                     /\ srv_idx' = [srv_idx EXCEPT ![p] = @ + 1]
                     /\ IF srv_idx[p] < Len(glusterfs_servers)
                        THEN /\ log' = [log EXCEPT ![p] =
                                           Append(@, "volume list " \o s)]
                             /\ pc' = [pc EXCEPT ![p] = "fetch"]
                             /\ UNCHANGED <<fetch_ret, result>>
                        ELSE /\ fetch_ret' =
                                    [fetch_ret EXCEPT ![p] =
                                        [returned |-> TRUE, vols |-> vols]]
                             /\ pc' = [pc EXCEPT ![p] = "ret"]
                             /\ AfterFetch(p, vols)
           \/ /\ log' = [log EXCEPT ![p] = Append(@, "volume list " \o s)]
              /\ result' = [result EXCEPT ![p] = "BackendUnavailable"]
              /\ fetch_ret' = [fetch_ret EXCEPT ![p] =
                                  [returned |-> TRUE, vols |-> fetched[p]]]
              /\ pc' = [pc EXCEPT ![p] = "ret"]
              /\ UNCHANGED <<fetched, srv_idx>>
    /\ UNCHANGED <<rvars, glusterfs_versions, vol_ssl, gluster_nosnap_vols_dict,
                   backend_snapshot_name, setup_versions, xml_out, list_out,
                   poolvars, ssl_allow_opt, call, vol, wiped, new_opt, free_at>>

\* a _fetch_gluster_volumes that lets the error of the executor through
FetchList_RaisesRaw(p) ==
    /\ pc[p] = "fetch"
    /\ LET s == glusterfs_servers[srv_idx[p]]
       IN  \/ \E listed \in SUBSET {v \in Vols : ServerOf(v) = s} :
                 LET vols == fetched[p] \cup {v \in listed : PatternMatch(v)}
                 IN  /\ fetched' = [fetched EXCEPT ![p] = vols]
                     /\ srv_idx' = [srv_idx EXCEPT ![p] = @ + 1]
                     /\ IF srv_idx[p] < Len(glusterfs_servers)
                        THEN /\ log' = [log EXCEPT ![p] =
                                           Append(@, "volume list " \o s)]
                             /\ pc' = [pc EXCEPT ![p] = "fetch"]
                             /\ UNCHANGED <<fetch_ret, result>>
                        ELSE /\ fetch_ret' =
                                    [fetch_ret EXCEPT ![p] =
                                        [returned |-> TRUE, vols |-> vols]]
                             /\ pc' = [pc EXCEPT ![p] = "ret"]
                             /\ AfterFetch(p, vols)
           \/ /\ log' = [log EXCEPT ![p] = Append(@, "volume list " \o s)]
              /\ result' = [result EXCEPT ![p] = "ProcessExecutionError"]
              /\ pc' = [pc EXCEPT ![p] = "ret"]
              /\ UNCHANGED <<fetched, fetch_ret, srv_idx>>
    /\ UNCHANGED <<rvars, glusterfs_versions, vol_ssl, gluster_nosnap_vols_dict,
                   backend_snapshot_name, setup_versions, xml_out, list_out,
                   poolvars, ssl_allow_opt, call, vol, wiped, new_opt, free_at>>

\* _fetch_gluster_volumes: 'volume list' of the next server in
\* glusterfs_servers.  The volumes of its output that match the pattern are
\* added to the dictionary, which is returned after the last server; a
\* ProcessExecutionError raises GlusterfsException and nothing is returned
FetchList(p) ==
    /\ pc[p] = "fetch"
    /\ LET s == glusterfs_servers[srv_idx[p]]
       IN  \/ \E listed \in SUBSET {v \in Vols : ServerOf(v) = s} :
                 LET vols == fetched[p] \cup {v \in listed : PatternMatch(v)}
                 IN  /\ fetched' = [fetched EXCEPT ![p] = vols]
                     /\ srv_idx' = [srv_idx EXCEPT ![p] = @ + 1]
                     /\ IF srv_idx[p] < Len(glusterfs_servers)
                        THEN /\ log' = [log EXCEPT ![p] =
                                           Append(@, "volume list " \o s)]
                             /\ pc' = [pc EXCEPT ![p] = "fetch"]
                             /\ UNCHANGED <<fetch_ret, result>>
                        ELSE /\ fetch_ret' =
                                    [fetch_ret EXCEPT ![p] =
                                        [returned |-> TRUE, vols |-> vols]]
                             /\ pc' = [pc EXCEPT ![p] = "ret"]
                             /\ AfterFetch(p, vols)
           \/ /\ log' = [log EXCEPT ![p] = Append(@, "volume list " \o s)]
              /\ result' = [result EXCEPT ![p] = "BackendUnavailable"]
              /\ pc' = [pc EXCEPT ![p] = "ret"]
              /\ UNCHANGED <<fetched, fetch_ret, srv_idx>>
    /\ UNCHANGED <<rvars, glusterfs_versions, vol_ssl, gluster_nosnap_vols_dict,
                   backend_snapshot_name, setup_versions, xml_out, list_out,
                   poolvars, ssl_allow_opt, call, vol, wiped, new_opt, free_at>>

(***************************************************************************)
(* manila.scheduler.filters.retry: RetryFilter.host_passes                 *)
(***************************************************************************)

\* the hosts of the scheduler, and the longest list of tried hosts
Hosts == {"hostA", "hostB", "hostC"}
MaxTried == 2

\* the lists of previously tried hosts
TriedLists == UNION {[1..n -> Hosts] : n \in 0..MaxTried}

\* what filter_properties['retry'] may be: None, or a dictionary with or
\* without 'hosts' and 'num_attempts'
RetryValues ==
    {NoRetry}
        \cup {[none |-> FALSE, keys |-> ks, hosts |-> <<>>] :
                  ks \in SUBSET {"num_attempts"}}
        \cup {[none |-> FALSE, keys |-> ks \cup {"hosts"}, hosts |-> hs] :
                  ks \in SUBSET {"num_attempts"}, hs \in TriedLists}

\* the filter_properties a scheduler may pass: with or without 'retry'
FilterProperties ==
    {NoFilterProperties}
        \cup {[keys |-> {"retry"}, retry |-> r] : r \in RetryValues}

\* Python: not retry, for None or a dictionary
Falsy(retry) == retry.none \/ retry.keys = {}

\* Python: filter_properties.get('retry')
get_retry(props) == IF "retry" \in props.keys THEN props.retry ELSE NoRetry

\* Python: retry.get('hosts', [])
get_hosts(retry) == IF "hosts" \in retry.keys THEN retry.hosts ELSE <<>>

\* a filter that takes a retry record without 'hosts' for one that has
\* tried every host
host_passes_MissingListFails(hs, props) ==
    IF Falsy(get_retry(props)) THEN TRUE
    ELSE /\ "hosts" \in get_retry(props).keys
         /\ ~InList(get_hosts(get_retry(props)), hs.host)

\* RetryFilter.host_passes(host_state, filter_properties)
host_passes(hs, props) ==
    IF Falsy(get_retry(props)) THEN TRUE
    ELSE ~InList(get_hosts(get_retry(props)), hs.host)

\* the scheduler asks the filter about a host
HostPasses ==
    /\ ~passes_ret.returned
    /\ passes_ret' = [returned |-> TRUE,
                      value |-> host_passes(host_state, filter_properties)]
    /\ UNCHANGED <<filter_properties, host_state, glusterfs_versions, vol_ssl,
                   gluster_nosnap_vols_dict, lvars, poolvars, ssl_allow_opt,
                   pc, call, vol, wiped, new_opt, log, free_at, result>>

(***************************************************************************)
(* _setup_gluster_vol(vol): the commands of the setup of a volume, in       *)
(* log[p]; the option nfs.export-volumes shows in the log only              *)
(***************************************************************************)

\* _setup_gluster_vol(vol) is called
SetupVolCall(p, v) ==
    /\ pc[p] = "idle"
    /\ pc' = [pc EXCEPT ![p] = "sv_get"]
    /\ call' = [call EXCEPT ![p] = [NoCall EXCEPT !.op = "_setup_gluster_vol"]]
    /\ vol' = [vol EXCEPT ![p] = v]
    /\ UNCHANGED <<gvars, poolvars, ssl_allow_opt, wiped, new_opt, log, free_at,
                   result>>

\* a setup that goes on although the volume has no auth.ssl-allow
SetupVolGet_IgnoresMissingOption(p) ==
    /\ pc[p] = "sv_get"
    /\ log' = [log EXCEPT ![p] = Append(@, "get")]
    /\ pc' = [pc EXCEPT ![p] = "sv_nfs"]
    /\ UNCHANGED <<gvars, poolvars, ssl_allow_opt, call, vol, wiped, new_opt,
                   free_at, result>>

\* _setup_gluster_vol: gmgr.get_gluster_vol_option('auth.ssl-allow'); a
\* volume without the option (None) is refused
SetupVolGet(p) ==
    /\ pc[p] = "sv_get"
    /\ log' = [log EXCEPT ![p] = Append(@, "get")]
    /\ IF ssl_allow_opt[vol[p]] = <<>>
       THEN /\ result' = [result EXCEPT ![p] = "VolumeSetupFailed"]
            /\ pc' = [pc EXCEPT ![p] = "ret"]
       ELSE /\ pc' = [pc EXCEPT ![p] = "sv_nfs"]
            /\ UNCHANGED result
    /\ UNCHANGED <<gvars, poolvars, ssl_allow_opt, call, vol, wiped, new_opt,
                   free_at>>

\* _setup_gluster_vol: volume set <vol> nfs.export-volumes off
SetupVolNfsOff(p) ==
    /\ pc[p] = "sv_nfs"
    /\ log' = [log EXCEPT ![p] = Append(@, "nfs.export-volumes off")]
    /\ \E ok \in BOOLEAN :
          IF ok
          THEN /\ pc' = [pc EXCEPT ![p] = "sv_client"]
               /\ UNCHANGED result
          ELSE /\ result' = [result EXCEPT ![p] = "VolumeSetupFailed"]
               /\ pc' = [pc EXCEPT ![p] = "ret"]
    /\ UNCHANGED <<gvars, poolvars, ssl_allow_opt, call, vol, wiped, new_opt,
                   free_at>>

\* _setup_gluster_vol: volume set <vol> client.ssl on
SetupVolClientSsl(p) ==
    /\ pc[p] = "sv_client"
    /\ log' = [log EXCEPT ![p] = Append(@, "client.ssl on")]
    /\ \E ok \in BOOLEAN :
          IF ok
          THEN /\ vol_ssl' = [vol_ssl EXCEPT ![vol[p]].client = "on"]
               /\ pc' = [pc EXCEPT ![p] = "sv_server"]
               /\ UNCHANGED result
          ELSE /\ result' = [result EXCEPT ![p] = "VolumeSetupFailed"]
               /\ pc' = [pc EXCEPT ![p] = "ret"]
               /\ UNCHANGED vol_ssl
    /\ UNCHANGED <<glusterfs_versions, gluster_nosnap_vols_dict, lvars, rvars,
                   poolvars, ssl_allow_opt, call, vol, wiped, new_opt, free_at>>

\* a setup that restarts the volume although server.ssl could not be set
SetupVolServerSsl_RestartsAfterFailure(p) ==
    /\ pc[p] = "sv_server"
    /\ log' = [log EXCEPT ![p] = Append(@, "server.ssl on")]
    /\ \E ok \in BOOLEAN :
          IF ok
          THEN /\ vol_ssl' = [vol_ssl EXCEPT ![vol[p]].server = "on"]
               /\ pc' = [pc EXCEPT ![p] = "sv_restart"]
               /\ UNCHANGED result
          ELSE /\ pc' = [pc EXCEPT ![p] = "sv_restart"]
               /\ UNCHANGED <<vol_ssl, result>>
    /\ UNCHANGED <<glusterfs_versions, gluster_nosnap_vols_dict, lvars, rvars,
                   poolvars, ssl_allow_opt, call, vol, wiped, new_opt, free_at>>

\* _setup_gluster_vol: volume set <vol> server.ssl on
SetupVolServerSsl(p) ==
    /\ pc[p] = "sv_server"
    /\ log' = [log EXCEPT ![p] = Append(@, "server.ssl on")]
    /\ \E ok \in BOOLEAN :
          IF ok
          THEN /\ vol_ssl' = [vol_ssl EXCEPT ![vol[p]].server = "on"]
               /\ pc' = [pc EXCEPT ![p] = "sv_restart"]
               /\ UNCHANGED result
          ELSE /\ result' = [result EXCEPT ![p] = "VolumeSetupFailed"]
               /\ pc' = [pc EXCEPT ![p] = "ret"]
               /\ UNCHANGED vol_ssl
    /\ UNCHANGED <<glusterfs_versions, gluster_nosnap_vols_dict, lvars, rvars,
                   poolvars, ssl_allow_opt, call, vol, wiped, new_opt, free_at>>

\* _setup_gluster_vol: common._restart_gluster_vol(gmgr), then return None
SetupVolRestart(p) ==
    /\ pc[p] = "sv_restart"
    /\ log' = [log EXCEPT ![p] = Append(@, "restart")]
    /\ \E ok \in BOOLEAN :
          result' = [result EXCEPT ![p] =
                        IF ok THEN "ok" ELSE "VolumeSetupFailed"]
    /\ pc' = [pc EXCEPT ![p] = "ret"]
    /\ UNCHANGED <<gvars, poolvars, ssl_allow_opt, call, vol, wiped, new_opt,
                   free_at>>

(***************************************************************************)
(* Access list                                                             *)
(***************************************************************************)

\* allow_access / deny_access(context, share, access) is called
AccessCall(p, op, v, t, cn) ==
    /\ pc[p] = "idle"
    /\ pc' = [pc EXCEPT ![p] = "acc_read"]
    /\ call' = [call EXCEPT ![p] = [NoCall EXCEPT !.op = op,
                                                  !.access_type = t,
                                                  !.access_to = cn]]
    /\ vol' = [vol EXCEPT ![p] = v]
    /\ UNCHANGED <<gvars, poolvars, ssl_allow_opt, wiped, new_opt, log, free_at,
                   result>>

\* access updates that do not exclude each other
AccessExclusive_Unguarded(v) == TRUE

\* the share service runs one access update at a time on a volume identity
AccessExclusive(v) ==
    \A q \in Procs :
        ~(pc[q] \in {"acc_read", "acc_write", "acc_restart"} /\ vol[q] = v)

\* an allow_access that appends and writes without looking for access_to
AllowAccessRead_NoMembershipCheck(p) ==
    /\ pc[p] = "acc_read"
    /\ call[p].op = "allow_access"
    /\ IF call[p].access_type # "cert"
       THEN /\ result' = [result EXCEPT ![p] = "InvalidAccessType"]
            /\ pc' = [pc EXCEPT ![p] = "ret"]
            /\ UNCHANGED <<log, new_opt>>
       ELSE /\ log' = [log EXCEPT ![p] = Append(@, "get")]
            /\ new_opt' = [new_opt EXCEPT ![p] =
                              Join(Append(Split(ssl_allow_opt[vol[p]]),
                                          Str(call[p].access_to)))]
            /\ pc' = [pc EXCEPT ![p] = "acc_write"]
            /\ UNCHANGED result
    /\ UNCHANGED <<gvars, poolvars, ssl_allow_opt, call, vol, wiped, free_at>>

\* an allow_access that reads auth.ssl-allow before it looks at the access
\* type
AllowAccessRead_TypeCheckAfterRead(p) ==
    /\ pc[p] = "acc_read"
    /\ call[p].op = "allow_access"
    /\ log' = [log EXCEPT ![p] = Append(@, "get")]
    /\ IF call[p].access_type # "cert"
       THEN /\ result' = [result EXCEPT ![p] = "InvalidAccessType"]
            /\ pc' = [pc EXCEPT ![p] = "ret"]
            /\ UNCHANGED new_opt
       ELSE LET ssl_allow == Split(ssl_allow_opt[vol[p]])
                access_to == Str(call[p].access_to)
            IN  IF InList(ssl_allow, access_to)
                THEN /\ result' = [result EXCEPT ![p] = "ok"]
                     /\ pc' = [pc EXCEPT ![p] = "ret"]
                     /\ UNCHANGED new_opt
                ELSE /\ new_opt' = [new_opt EXCEPT ![p] =
                                       Join(Append(ssl_allow, access_to))]
                     /\ pc' = [pc EXCEPT ![p] = "acc_write"]
                     /\ UNCHANGED result
    /\ UNCHANGED <<gvars, poolvars, ssl_allow_opt, call, vol, wiped, free_at>>

\* allow_access: check the access type, read auth.ssl-allow, return when
\* access_to is already in it, else build the list with access_to appended
AllowAccessRead(p) ==
    /\ pc[p] = "acc_read"
    /\ call[p].op = "allow_access"
    /\ IF call[p].access_type # "cert"
       THEN /\ result' = [result EXCEPT ![p] = "InvalidAccessType"]
            /\ pc' = [pc EXCEPT ![p] = "ret"]
            /\ UNCHANGED <<log, new_opt>>
       ELSE LET ssl_allow == Split(ssl_allow_opt[vol[p]])
                access_to == Str(call[p].access_to)
            IN  /\ log' = [log EXCEPT ![p] = Append(@, "get")]
                /\ IF InList(ssl_allow, access_to)
                   THEN /\ result' = [result EXCEPT ![p] = "ok"]
                        /\ pc' = [pc EXCEPT ![p] = "ret"]
                        /\ UNCHANGED new_opt
                   ELSE /\ new_opt' = [new_opt EXCEPT ![p] =
                                          Join(Append(ssl_allow, access_to))]
                        /\ pc' = [pc EXCEPT ![p] = "acc_write"]
                        /\ UNCHANGED result
    /\ UNCHANGED <<gvars, poolvars, ssl_allow_opt, call, vol, wiped, free_at>>

\* a deny_access that writes the list back and restarts even when access_to
\* was not in it
DenyAccessRead_NoMembershipCheck(p) ==
    /\ pc[p] = "acc_read"
    /\ call[p].op = "deny_access"
    /\ IF call[p].access_type # "cert"
       THEN /\ result' = [result EXCEPT ![p] = "InvalidAccessType"]
            /\ pc' = [pc EXCEPT ![p] = "ret"]
            /\ UNCHANGED <<log, new_opt>>
       ELSE LET ssl_allow == Split(ssl_allow_opt[vol[p]])
                access_to == Str(call[p].access_to)
            IN  /\ log' = [log EXCEPT ![p] = Append(@, "get")]
                /\ new_opt' = [new_opt EXCEPT ![p] =
                                  Join(IF InList(ssl_allow, access_to)
                                       THEN Remove(ssl_allow, access_to)
                                       ELSE ssl_allow)]
                /\ pc' = [pc EXCEPT ![p] = "acc_write"]
                /\ UNCHANGED result
    /\ UNCHANGED <<gvars, poolvars, ssl_allow_opt, call, vol, wiped, free_at>>

\* deny_access: check the access type, read auth.ssl-allow, return when
\* access_to is not in it, else build the list with access_to removed
DenyAccessRead(p) ==
    /\ pc[p] = "acc_read"
    /\ call[p].op = "deny_access"
    /\ IF call[p].access_type # "cert"
       THEN /\ result' = [result EXCEPT ![p] = "InvalidAccessType"]
            /\ pc' = [pc EXCEPT ![p] = "ret"]
            /\ UNCHANGED <<log, new_opt>>
       ELSE LET ssl_allow == Split(ssl_allow_opt[vol[p]])
                access_to == Str(call[p].access_to)
            IN  /\ log' = [log EXCEPT ![p] = Append(@, "get")]
                /\ IF ~InList(ssl_allow, access_to)
                   THEN /\ result' = [result EXCEPT ![p] = "ok"]
                        /\ pc' = [pc EXCEPT ![p] = "ret"]
                        /\ UNCHANGED new_opt
                   ELSE /\ new_opt' = [new_opt EXCEPT ![p] =
                                          Join(Remove(ssl_allow, access_to))]
                        /\ pc' = [pc EXCEPT ![p] = "acc_write"]
                        /\ UNCHANGED result
    /\ UNCHANGED <<gvars, poolvars, ssl_allow_opt, call, vol, wiped, free_at>>

\* allow_access / deny_access: get_gluster_vol_option('auth.ssl-allow')
\* fails; the call ends there
AccessReadFail(p) ==
    /\ pc[p] = "acc_read"
    /\ call[p].access_type = "cert"
    /\ log' = [log EXCEPT ![p] = Append(@, "get")]
    /\ result' = [result EXCEPT ![p] = "BackendUnavailable"]
    /\ pc' = [pc EXCEPT ![p] = "ret"]
    /\ UNCHANGED <<gvars, poolvars, ssl_allow_opt, call, vol, wiped, new_opt,
                   free_at>>

\* an access update that goes on to restart the volume when its write failed
AccessWrite_RestartAfterFailure(p) ==
    /\ pc[p] = "acc_write"
    /\ log' = [log EXCEPT ![p] = Append(@, "set")]
    /\ \E ok \in BOOLEAN :
          ssl_allow_opt' = IF ok
                           THEN [ssl_allow_opt EXCEPT ![vol[p]] = new_opt[p]]
                           ELSE ssl_allow_opt
    /\ pc' = [pc EXCEPT ![p] = "acc_restart"]
    /\ UNCHANGED <<gvars, poolvars, call, vol, wiped, new_opt, free_at, result>>

\* allow_access / deny_access: gluster volume set <vol> auth.ssl-allow <list>
AccessWrite(p) ==
    /\ pc[p] = "acc_write"
    /\ log' = [log EXCEPT ![p] = Append(@, "set")]
    /\ \E ok \in BOOLEAN :
          IF ok
          THEN /\ ssl_allow_opt' = [ssl_allow_opt EXCEPT ![vol[p]] = new_opt[p]]
               /\ pc' = [pc EXCEPT ![p] = "acc_restart"]
               /\ UNCHANGED result
          ELSE /\ result' = [result EXCEPT ![p] = "AccessUpdateFailed"]
               /\ pc' = [pc EXCEPT ![p] = "ret"]
               /\ UNCHANGED ssl_allow_opt
    /\ UNCHANGED <<gvars, poolvars, call, vol, wiped, new_opt, free_at>>

\* allow_access / deny_access: common._restart_gluster_vol(gmgr)
AccessRestart(p) ==
    /\ pc[p] = "acc_restart"
    /\ log' = [log EXCEPT ![p] = Append(@, "restart")]
    /\ \E ok \in BOOLEAN :
          result' = [result EXCEPT ![p] =
                        IF ok THEN "ok" ELSE "AccessUpdateFailed"]
    /\ pc' = [pc EXCEPT ![p] = "ret"]
    /\ UNCHANGED <<gvars, poolvars, ssl_allow_opt, call, vol, wiped, new_opt,
                   free_at>>

(***************************************************************************)
(* Specifications                                                          *)
(***************************************************************************)

\* no snapshot or setup call in progress
InitLocals ==
    /\ backend_snapshot_name = [p \in Procs |-> "none"]
    /\ setup_versions = [p \in Procs |-> NoVersions]
    /\ fetched = [p \in Procs |-> {}]
    /\ fetch_ret = [p \in Procs |-> NoReturn]
    /\ xml_out = [p \in Procs |-> NoXml]
    /\ list_out = [p \in Procs |-> <<>>]
    /\ srv_idx = [p \in Procs |-> 1]
    /\ filter_properties = NoFilterProperties
    /\ host_state = [host |-> "none"]
    /\ passes_ret = NoPasses

\* the driver after construction: nothing in use, no call in progress
InitDriver ==
    /\ gluster_used_vols = {}
    /\ lock = "free"
    /\ shares = [v \in Vols |-> 0]
    /\ wipe_failed = {}
    /\ vol_ssl = [v \in Vols |-> [client |-> "on", server |-> "on"]]
    /\ gluster_nosnap_vols_dict = {}
    /\ InitLocals
    /\ pc = [p \in Procs |-> "idle"]
    /\ call = [p \in Procs |-> NoCall]
    /\ vol = [p \in Procs |-> "none"]
    /\ wiped = [p \in Procs |-> "none"]
    /\ new_opt = [p \in Procs |-> <<>>]
    /\ log = [p \in Procs |-> <<>>]
    /\ free_at = [p \in Procs |-> {}]
    /\ result = [p \in Procs |-> "none"]

\* the fixture of the access tests: auth.ssl-allow is 'some.common.name'
InitSslAllow == ssl_allow_opt = [v \in Vols |-> Str("cn0")]

\* the fixture's glusterfs_versions: host1 runs 3.6, host2 runs 3.7
InitVersions ==
    glusterfs_versions = [s \in Servers |->
                             IF s = "host1" THEN <<"3", "6">> ELSE <<"3", "7">>]

\* the pool of the driver fixture: a sized, a larger and an unsized volume
\* ('manila-share-1-1G', 'manila-share-2-2G', 'share1')
Init ==
    /\ InitDriver
    /\ InitSslAllow
    /\ InitVersions
    /\ voldict = [v \in Vols |-> IF v = "v1" THEN 1
                                 ELSE IF v = "v2" THEN 2 ELSE NoSize]

\* concurrent create_share / delete_share of the share service's workers
Next ==
    \E p \in Procs :
        \/ \E s \in ReqSizes : CreateShare(p, s)
        \/ PopEnter(p)
        \/ PopSetup(p)
        \/ PopAdd(p)
        \/ \E v \in Vols : DeleteShare(p, v)
        \/ WipeEnd(p)
        \/ PushEnter(p)
        \/ Return(p)

Spec == Init /\ [][Next]_vars

\* any pool the operator may have provided
InitAnyPool ==
    /\ InitDriver
    /\ InitSslAllow
    /\ InitVersions
    /\ voldict \in [Vols -> VolSizes]

\* the pool operations called one after the other by a single caller, on any
\* pool, with _push_gluster_vol called on any identity
NextUnit ==
    \/ \E s \in ReqSizes : CreateShare("p1", s)
    \/ PopEnter("p1")
    \/ PopSetup("p1")
    \/ PopAdd("p1")
    \/ \E v \in Vols : PushCall("p1", v)
    \/ PushEnter("p1")
    \/ Return("p1")

SpecUnit == InitAnyPool /\ [][NextUnit]_vars

\* allow_access / deny_access calls of one caller on the shares' volumes
NextAcl ==
    \/ \E op \in {"allow_access", "deny_access"}, v \in AclVols,
          t \in AccessTypes, cn \in Principals : AccessCall("p1", op, v, t, cn)
    \/ AllowAccessRead("p1")
    \/ DenyAccessRead("p1")
    \/ AccessWrite("p1")
    \/ AccessRestart("p1")
    \/ Return("p1")

SpecAcl == Init /\ [][NextAcl]_vars

\* the principal each of the two workers is asked to allow or deny
PrincipalOf(p) == IF p = "p1" THEN "cn1" ELSE "cn2"

\* two workers of the share service updating the access of one share
NextAclPair ==
    \E p \in Procs :
        \/ \E op \in {"allow_access", "deny_access"}, t \in AccessTypes :
              /\ AccessExclusive("v1")
              /\ AccessCall(p, op, "v1", t, PrincipalOf(p))
        \/ AllowAccessRead(p)
        \/ DenyAccessRead(p)
        \/ AccessWrite(p)
        \/ AccessRestart(p)
        \/ Return(p)

SpecAclPair == Init /\ [][NextAclPair]_vars

\* the same calls with a backend whose option read may fail
NextAclFaulty ==
    \/ NextAcl
    \/ AccessReadFail("p1")

SpecAclFaulty == Init /\ [][NextAclFaulty]_vars

\* the driver with any versions resolved for its two servers
InitWipe ==
    /\ InitDriver
    /\ InitSslAllow
    /\ voldict = [v \in Vols |-> IF v = "v1" THEN 1
                                 ELSE IF v = "v2" THEN 2 ELSE NoSize]
    /\ glusterfs_versions \in [Servers -> VersionStrs]

\* _wipe_gluster_vol called by one caller on the volumes of the two servers
NextWipe ==
    \/ \E v \in AclVols : WipeCall("p1", v)
    \/ WipeClientSslOff("p1")
    \/ WipeServerSslOff("p1")
    \/ WipeRestart1("p1")
    \/ WipeRestartFail("p1")
    \/ WipeMount("p1")
    \/ WipeDelete("p1")
    \/ WipeUmount("p1")
    \/ WipeClientSslOn("p1")
    \/ WipeServerSslOn("p1")
    \/ WipeRestart2("p1")
    \/ Return("p1")

SpecWipe == InitWipe /\ [][NextWipe]_vars

\* the driver with two shares that may have snapshots: any versions resolved
\* for the two servers, any volumes marked as unable to take snapshots, and
\* the auth.ssl-allow of the fixture, 'glusterfs-server-1,client'
InitSnap ==
    /\ InitLocals
    /\ voldict = [v \in Vols |-> IF v = "v1" THEN 1
                                 ELSE IF v = "v2" THEN 2 ELSE NoSize]
    /\ gluster_used_vols = AclVols
    /\ lock = "free"
    /\ shares = [v \in Vols |-> IF v \in AclVols THEN voldict[v] ELSE NoSize]
    /\ wipe_failed = {}
    /\ vol_ssl = [v \in Vols |-> [client |-> "on", server |-> "on"]]
    /\ ssl_allow_opt = [v \in Vols |-> Join(<<Str("cn0"), Str("cn1")>>)]
    /\ glusterfs_versions \in [Servers -> VersionStrs]
    /\ gluster_nosnap_vols_dict \in SUBSET AclVols
    /\ pc = [p \in Procs |-> "idle"]
    /\ call = [p \in Procs |-> NoCall]
    /\ vol = [p \in Procs |-> "none"]
    /\ wiped = [p \in Procs |-> "none"]
    /\ new_opt = [p \in Procs |-> <<>>]
    /\ log = [p \in Procs |-> <<>>]
    /\ free_at = [p \in Procs |-> {}]
    /\ result = [p \in Procs |-> "none"]

\* the snapshot operations called by one caller
NextSnap ==
    \/ \E op \in {"create_snapshot", "delete_snapshot"}, v \in AclVols :
          SnapCall("p1", op, v)
    \/ CreateSnapshot("p1")
    \/ SnapList("p1")
    \/ SnapDelete("p1")
    \/ \E v \in AclVols, id \in ShareIds : CfsCall("p1", v, id)
    \/ CfsActivate("p1")
    \/ CfsClone("p1")
    \/ CfsSetSslAllow("p1")
    \/ CfsStart("p1")
    \/ Return("p1")

SpecSnap == InitSnap /\ [][NextSnap]_vars

\* the driver with no volume marked yet
InitNoSnap == InitSnap /\ gluster_nosnap_vols_dict = {}

\* create_snapshot called again and again by one caller
NextNoSnap ==
    \/ \E v \in AclVols : SnapCall("p1", "create_snapshot", v)
    \/ CreateSnapshot("p1")
    \/ Return("p1")

SpecNoSnap == InitNoSnap /\ [][NextNoSnap]_vars

\* the driver with volumes that have not been set up: auth.ssl-allow may be
\* missing and the TLS options may be off
InitVolSetup ==
    /\ InitLocals
    /\ InitVersions
    /\ voldict = [v \in Vols |-> IF v = "v1" THEN 1
                                 ELSE IF v = "v2" THEN 2 ELSE NoSize]
    /\ gluster_used_vols = {}
    /\ lock = "free"
    /\ shares = [v \in Vols |-> 0]
    /\ wipe_failed = {}
    /\ vol_ssl \in [Vols -> {[client |-> "on", server |-> "on"],
                             [client |-> "off", server |-> "off"]}]
    /\ ssl_allow_opt \in [Vols -> {<<>>, Str("cn0")}]
    /\ gluster_nosnap_vols_dict = {}
    /\ pc = [p \in Procs |-> "idle"]
    /\ call = [p \in Procs |-> NoCall]
    /\ vol = [p \in Procs |-> "none"]
    /\ wiped = [p \in Procs |-> "none"]
    /\ new_opt = [p \in Procs |-> <<>>]
    /\ log = [p \in Procs |-> <<>>]
    /\ free_at = [p \in Procs |-> {}]
    /\ result = [p \in Procs |-> "none"]

\* _setup_gluster_vol called by one caller
NextVolSetup ==
    \/ \E v \in AclVols : SetupVolCall("p1", v)
    \/ SetupVolGet("p1")
    \/ SetupVolNfsOff("p1")
    \/ SetupVolClientSsl("p1")
    \/ SetupVolServerSsl("p1")
    \/ SetupVolRestart("p1")
    \/ Return("p1")

SpecVolSetup == InitVolSetup /\ [][NextVolSetup]_vars

\* the driver before its first do_setup: no version known
InitSetup ==
    /\ InitDriver
    /\ InitSslAllow
    /\ voldict = [v \in Vols |-> IF v = "v1" THEN 1
                                 ELSE IF v = "v2" THEN 2 ELSE NoSize]
    /\ glusterfs_versions = NoVersions

\* do_setup and _fetch_gluster_volumes called by one caller
NextSetup ==
    \/ SetupCall("p1")
    \/ SetupGetVersion("p1")
    \/ SetupCheckVersions("p1")
    \/ FetchCall("p1")
    \/ FetchList("p1")
    \/ Return("p1")

SpecSetup == InitSetup /\ [][NextSetup]_vars

\* a scheduler about to ask the filter, with any filter_properties and host
InitRetry ==
    /\ gluster_used_vols = {}
    /\ lock = "free"
    /\ shares = [v \in Vols |-> 0]
    /\ wipe_failed = {}
    /\ vol_ssl = [v \in Vols |-> [client |-> "on", server |-> "on"]]
    /\ gluster_nosnap_vols_dict = {}
    /\ backend_snapshot_name = [p \in Procs |-> "none"]
    /\ setup_versions = [p \in Procs |-> NoVersions]
    /\ fetched = [p \in Procs |-> {}]
    /\ fetch_ret = [p \in Procs |-> NoReturn]
    /\ xml_out = [p \in Procs |-> NoXml]
    /\ list_out = [p \in Procs |-> <<>>]
    /\ srv_idx = [p \in Procs |-> 1]
    /\ pc = [p \in Procs |-> "idle"]
    /\ call = [p \in Procs |-> NoCall]
    /\ vol = [p \in Procs |-> "none"]
    /\ wiped = [p \in Procs |-> "none"]
    /\ new_opt = [p \in Procs |-> <<>>]
    /\ log = [p \in Procs |-> <<>>]
    /\ free_at = [p \in Procs |-> {}]
    /\ result = [p \in Procs |-> "none"]
    /\ InitSslAllow
    /\ InitVersions
    /\ voldict = [v \in Vols |-> NoSize]
    /\ filter_properties \in FilterProperties
    /\ host_state \in [host : Hosts]
    /\ passes_ret = NoPasses

NextRetry == HostPasses

SpecRetry == InitRetry /\ [][NextRetry]_vars

(***************************************************************************)
(* Properties                                                              *)
(***************************************************************************)

\* a pop of process p has ended by returning a volume or by finding none
PopDecided(p) ==
    /\ pc[p] = "ret"
    /\ call[p].op = "create_share"
    /\ result[p] \in Vols \cup {"PoolExhausted"}

\* C1 as stated: acquire(s) returns a free volume whose size equals s if one
\* is free; otherwise a free volume with no size attribute if one is free;
\* otherwise it fails with PoolExhausted, so that a free volume of another
\* size never satisfies the request.
C1_ExactElseUnsizedElseFail ==
    \A p \in Procs :
        PopDecided(p) =>
            LET s == call[p].size
                exact == {v \in free_at[p] : voldict[v] = s}
                unsized == {v \in free_at[p] : voldict[v] = NoSize}
            IN  IF exact # {} THEN result[p] \in exact
                ELSE IF unsized # {} THEN result[p] \in unsized
                ELSE result[p] = "PoolExhausted"

\* C1 amended: acquire(s) returns a free volume whose size equals s if one is
\* free; otherwise a free volume that has no size attribute or whose size is
\* larger than s (any free volume when no size is requested); it fails with
\* PoolExhausted only when no volume is free or every free volume is sized
\* below s.  A free volume sized below s never satisfies the request.
C1_ExactElseFittingElseFail ==
    \A p \in Procs :
        PopDecided(p) =>
            LET s == call[p].size
                exact == {v \in free_at[p] : s # NoSize /\ voldict[v] = s}
                fitting == {v \in free_at[p] :
                               \/ s = NoSize
                               \/ voldict[v] = NoSize
                               \/ voldict[v] >= s}
            IN  IF exact # {} THEN result[p] \in exact
                ELSE IF fitting # {} THEN result[p] \in fitting
                ELSE result[p] = "PoolExhausted"

\* C1 witness: a request of size s was served by a free volume sized above s
C1_LargerVolumeReturned ==
    \E p \in Procs :
        /\ PopDecided(p)
        /\ result[p] \in Vols
        /\ call[p].size # NoSize
        /\ voldict[result[p]] > call[p].size

\* C2: when acquire returns v, v is in the used set and no share holds v
\* from an earlier acquire (every acquire of v since then was followed by a
\* completed release of v); and as long as a share holds v, v is in the used set.
C2_ReturnedVolumeStaysUsed ==
    /\ [](\A v \in Vols : shares[v] > 0 => v \in gluster_used_vols)
    /\ [][\A p \in Procs :
             (pc[p] = "pop_add" /\ pc'[p] = "ret") =>
                 /\ result'[p] = vol[p]
                 /\ vol[p] \in gluster_used_vols'
                 /\ shares[vol[p]] = 0]_vars

\* C2 witness: an acquire has returned a volume, which is now in the used
\* set beside a volume returned earlier
C2_VolumeReturned ==
    \E p \in Procs :
        /\ pc[p] = "ret" /\ call[p].op = "create_share"
        /\ result[p] \in Vols /\ result[p] \in gluster_used_vols
        /\ shares[result[p]] = 1
        /\ gluster_used_vols # {result[p]}

\* C3: under every interleaving no volume is bound to two shares at once,
\* two acquires are never inside the pool operation together, and an acquire
\* that selected v never overlaps a release of v.
C3_NoVolumeBoundTwice ==
    /\ \A v \in Vols : shares[v] <= 1
    /\ \A p, q \in Procs :
          (p # q /\ pc[p] \in {"pop_setup", "pop_add"}) =>
              /\ pc[q] \notin {"pop_setup", "pop_add"}
              /\ ~(pc[q] \in {"wipe", "push_wait"} /\ vol[q] = vol[p])

\* C3 witness: both workers' acquires have succeeded, with different volumes
C3_TwoAcquiresSucceeded ==
    /\ \A p \in Procs :
          pc[p] = "ret" /\ call[p].op = "create_share" /\ result[p] \in Vols
    /\ result["p1"] # result["p2"]

\* C4: when every volume of the pool is in the used set, acquire fails with
\* PoolExhausted whatever size is requested, issues no setup command and
\* leaves the used set unchanged.
C4_ExhaustedPoolFails ==
    [][\A p \in Procs :
          (pc[p] = "pop_wait" /\ pc'[p] # "pop_wait"
              /\ gluster_used_vols = Vols) =>
                 /\ pc'[p] = "ret"
                 /\ result'[p] = "PoolExhausted"
                 /\ log'[p] = <<>>
                 /\ gluster_used_vols' = gluster_used_vols]_vars

\* C4 witness: an acquire with no size has failed on a pool all in use
C4_FailedOnExhaustedPool ==
    \E p \in Procs :
        /\ pc[p] = "ret" /\ call[p].op = "create_share"
        /\ call[p].size = NoSize
        /\ result[p] = "PoolExhausted"
        /\ gluster_used_vols = Vols

\* C5: when the setup of the selected volume fails, acquire fails with
\* VolumeSetupFailed (the move from the setup to the return without the
\* volume being added), the used set is what it was and the selected volume
\* is not in it, so that a later acquire may select it.
C5_SetupFailureLeavesVolumeFree ==
    [][\A p \in Procs :
          (pc[p] = "pop_setup" /\ pc'[p] = "ret") =>
              /\ result'[p] = "VolumeSetupFailed"
              /\ gluster_used_vols' = gluster_used_vols
              /\ vol[p] \notin gluster_used_vols'
              /\ lock' = "free"]_vars

\* C5 witness: an acquire has failed in the setup of a volume it selected
C5_SetupFailed ==
    \E p \in Procs :
        /\ pc[p] = "ret" /\ call[p].op = "create_share"
        /\ result[p] = "VolumeSetupFailed"
        /\ log[p] = <<"setup">>
        /\ vol[p] \in Vols \ gluster_used_vols

\* C6: release of an identity that is not in the used set fails with
\* VolumeNotManaged and leaves the used set unchanged; release of a used
\* identity removes that identity from the used set and no other.
C6_PushRemovesExactlyTheIdentity ==
    [][\A p \in Procs :
          (pc[p] = "push_wait" /\ pc'[p] = "ret") =>
              IF vol[p] \in gluster_used_vols
              THEN /\ result'[p] = "ok"
                   /\ gluster_used_vols' = gluster_used_vols \ {vol[p]}
              ELSE /\ result'[p] = "VolumeNotManaged"
                   /\ gluster_used_vols' = gluster_used_vols]_vars

\* C6 witness: a release of an unused identity has failed while another
\* volume was in use
C6_PushOfUnusedFailed ==
    \E p \in Procs :
        /\ pc[p] = "ret" /\ call[p].op = "push"
        /\ result[p] = "VolumeNotManaged"
        /\ vol[p] \notin gluster_used_vols
        /\ gluster_used_vols # {}

\* C7: a volume leaves the used set only in the push of a delete_share whose
\* wipe returned success; while a wipe runs its volume is in the used set,
\* and when a wipe fails its volume is in the used set as the release ends.
C7_FreeOnlyAfterSuccessfulWipe ==
    /\ [](\A p \in Procs : pc[p] = "wipe" => vol[p] \in gluster_used_vols)
    /\ [][/\ \A v \in Vols :
                (v \in gluster_used_vols /\ v \notin gluster_used_vols') =>
                    \E p \in Procs :
                        /\ pc[p] = "push_wait" /\ pc'[p] = "ret"
                        /\ call[p].op = "delete_share"
                        /\ vol[p] = v
                        /\ wiped[p] = "ok"
          /\ \A p \in Procs :
                (pc[p] = "wipe" /\ pc'[p] = "ret") =>
                    /\ result'[p] = "WipeFailed"
                    /\ vol[p] \in gluster_used_vols']_vars

\* C7 witness: a release whose wipe succeeded has returned its volume to the
\* free set
C7_ReleasedAfterWipe ==
    \E p \in Procs :
        /\ pc[p] = "ret" /\ call[p].op = "delete_share"
        /\ wiped[p] = "ok" /\ result[p] = "ok"
        /\ vol[p] \notin gluster_used_vols

\* C8 as stated: once the wipe run by a release of v has failed, v is out of
\* the free pool for good: no later step, a further release of v included,
\* takes v out of the used set.
C8_FailedWipePoisonsForever ==
    [][\A v \in wipe_failed : v \in gluster_used_vols']_vars

\* C8 amended: when the wipe run by release(v) fails, v is still in the used
\* set as that release returns, and it stays there, so that no acquire
\* returns it, until a later release of v whose wipe succeeded removes it.
C8_FailedWipeKeepsVolumeUsed ==
    /\ [](wipe_failed \subseteq gluster_used_vols)
    /\ [][\A v \in wipe_failed :
             v \notin gluster_used_vols' =>
                 \E p \in Procs :
                     /\ pc[p] = "push_wait" /\ pc'[p] = "ret"
                     /\ call[p].op = "delete_share"
                     /\ vol[p] = v
                     /\ wiped[p] = "ok"]_vars

\* C8 witness: a release has failed in its wipe and has returned, its volume
\* still in use
C8_WipeFailedVolumeStillUsed ==
    \E p \in Procs :
        /\ pc[p] = "ret" /\ call[p].op = "delete_share"
        /\ result[p] = "WipeFailed"
        /\ vol[p] \in wipe_failed
        /\ vol[p] \in gluster_used_vols

\* C9: allow(v, p) when p is already in the allow-list of v succeeds, issues
\* no write command and no restart and leaves the allow-list unchanged.
C9_AllowOfPresentIsNoOp ==
    [][\A p \in Procs :
          (/\ pc[p] = "acc_read" /\ pc'[p] # "acc_read"
           /\ call[p].op = "allow_access"
           /\ call[p].access_type = "cert"
           /\ InList(Split(ssl_allow_opt[vol[p]]), <<call[p].access_to>>)) =>
              /\ pc'[p] = "ret"
              /\ result'[p] = "ok"
              /\ log'[p] = <<"get">>
              /\ ssl_allow_opt' = ssl_allow_opt]_vars

\* C9 witness: the second of two allows of a name has returned success
\* after the read only, the name being in the list from the first allow
C9_SecondAllowReturned ==
    \E p \in Procs :
        /\ pc[p] = "ret" /\ call[p].op = "allow_access"
        /\ call[p].access_to = "cn1"
        /\ result[p] = "ok"
        /\ log[p] = <<"get">>
        /\ ssl_allow_opt[vol[p]] = <<"cn0", Comma, "cn1">>

\* C10: deny(v, p) when p is not in the allow-list of v succeeds, issues no
\* write command and no restart and leaves the allow-list unchanged.
C10_DenyOfAbsentIsNoOp ==
    [][\A p \in Procs :
          (/\ pc[p] = "acc_read" /\ pc'[p] # "acc_read"
           /\ call[p].op = "deny_access"
           /\ call[p].access_type = "cert"
           /\ ~InList(Split(ssl_allow_opt[vol[p]]), <<call[p].access_to>>)) =>
              /\ pc'[p] = "ret"
              /\ result'[p] = "ok"
              /\ log'[p] = <<"get">>
              /\ ssl_allow_opt' = ssl_allow_opt]_vars

\* C10 witness: a deny of a name that is not in the list has returned
\* success after the read only
C10_DenyOfAbsentReturned ==
    \E p \in Procs :
        /\ pc[p] = "ret" /\ call[p].op = "deny_access"
        /\ call[p].access_to = "cn1"
        /\ result[p] = "ok"
        /\ log[p] = <<"get">>
        /\ ssl_allow_opt[vol[p]] = <<"cn0">>

\* a process is in, or has just ended, an allow_access or deny_access
InAccess(p) == call[p].op \in {"allow_access", "deny_access"}

\* C11: allow and deny called with an access type other than the certificate
\* type fail with InvalidAccessType before any remote call: no read of the
\* allow-list, no write and no restart is issued and the allow-list is
\* unchanged.
C11_InvalidTypeFailsBeforeAnyCall ==
    /\ [](\A p \in Procs :
            (pc[p] = "ret" /\ InAccess(p) /\ call[p].access_type # "cert") =>
                result[p] = "InvalidAccessType" /\ log[p] = <<>>)
    /\ [][\A p \in Procs :
             (/\ pc[p] = "acc_read" /\ pc'[p] # "acc_read"
              /\ call[p].access_type # "cert") =>
                 /\ pc'[p] = "ret"
                 /\ result'[p] = "InvalidAccessType"
                 /\ log'[p] = <<>>
                 /\ ssl_allow_opt' = ssl_allow_opt]_vars

\* C11 witness: a deny with an invalid access type of a name that is in the
\* list has failed without a command
C11_InvalidDenyFailed ==
    \E p \in Procs :
        /\ pc[p] = "ret" /\ call[p].op = "deny_access"
        /\ call[p].access_type = "invalid"
        /\ call[p].access_to = "cn0"
        /\ result[p] = "InvalidAccessType"
        /\ log[p] = <<>>
        /\ ssl_allow_opt[vol[p]] = <<"cn0">>

\* C12: an allow or deny that has to change the list issues, in this order,
\* one read of the allow-list, one write of the new list and one restart; if
\* the read fails no write and no restart is issued and the list is
\* unchanged; if the write fails the call fails with AccessUpdateFailed, no
\* restart is issued and the list is unchanged.
C12_ReadWriteRestartInOrder ==
    /\ [](\A p \in Procs :
            (InAccess(p) /\ pc[p] = "ret" /\ result[p] = "BackendUnavailable")
                => log[p] = <<"get">>)
    /\ [][\A p \in Procs :
             /\ (pc[p] = "acc_read" /\ pc'[p] = "ret") =>
                    /\ log'[p] \in {<<>>, <<"get">>}
                    /\ ssl_allow_opt' = ssl_allow_opt
             /\ (pc[p] = "acc_read" /\ pc'[p] = "acc_write") =>
                    /\ log'[p] = <<"get">>
                    /\ new_opt'[p] # ssl_allow_opt[vol[p]]
                    /\ ssl_allow_opt' = ssl_allow_opt
             /\ (pc[p] = "acc_write" /\ pc'[p] = "acc_restart") =>
                    /\ log'[p] = <<"get", "set">>
                    /\ ssl_allow_opt'[vol[p]] = new_opt[p]
             /\ (pc[p] = "acc_write" /\ pc'[p] = "ret") =>
                    /\ log'[p] = <<"get", "set">>
                    /\ result'[p] = "AccessUpdateFailed"
                    /\ ssl_allow_opt' = ssl_allow_opt
             /\ (pc[p] = "acc_write" /\ pc'[p] \notin {"acc_write", "ret"}) =>
                    pc'[p] = "acc_restart"
             /\ (pc[p] = "acc_restart" /\ pc'[p] # "acc_restart") =>
                    /\ log'[p] = <<"get", "set", "restart">>
                    /\ pc'[p] = "ret"]_vars

\* C12 witness: an allow of a new name has failed in its write, after the
\* read and without a restart, the list being what it was
C12_WriteFailed ==
    \E p \in Procs :
        /\ pc[p] = "ret" /\ call[p].op = "allow_access"
        /\ call[p].access_to = "cn1"
        /\ result[p] = "AccessUpdateFailed"
        /\ log[p] = <<"get", "set">>
        /\ ssl_allow_opt[vol[p]] = <<"cn0">>

\* the principals of a stored auth.ssl-allow value, in their order
Entries(opt) == SelectSeq(Split(opt), LAMBDA e : e # <<>>)

\* no entry of the list l occurs twice
NoDuplicate(l) == \A i, j \in 1..Len(l) : l[i] = l[j] => i = j

\* C13: starting from a duplicate-free allow-list, after any sequence of
\* allow and deny calls on a volume the stored allow-list holds no principal
\* twice; an allow of a new principal appends it at the end and keeps the
\* order of the existing entries, a deny removes only the named principal
\* and keeps the order of the others, and no other volume's list changes.
C13_NoDuplicateOrderKept ==
    /\ [](\A v \in Vols : NoDuplicate(Entries(ssl_allow_opt[v])))
    /\ [][\A p \in Procs :
             (pc[p] = "acc_write" /\ pc'[p] = "acc_restart") =>
                 LET old == Entries(ssl_allow_opt[vol[p]])
                     new == Entries(ssl_allow_opt'[vol[p]])
                     name == <<call[p].access_to>>
                 IN  /\ \A w \in Vols \ {vol[p]} :
                            ssl_allow_opt'[w] = ssl_allow_opt[w]
                     /\ IF call[p].op = "allow_access"
                        THEN new = Append(old, name)
                        ELSE new = SelectSeq(old, LAMBDA e : e # name)]_vars

\* C13 witness: a deny has taken the middle one of three principals out of
\* the list, the other two keeping their order
C13_MiddlePrincipalDenied ==
    \E p \in Procs :
        /\ pc[p] = "ret" /\ call[p].op = "deny_access"
        /\ call[p].access_to = "cn1"
        /\ result[p] = "ok"
        /\ log[p] = <<"get", "set", "restart">>
        /\ ssl_allow_opt[vol[p]] = <<"cn0", Comma, "cn2">>

\* the command c is in the command log l; how often; where (when it is)
Has(l, c) == \E i \in 1..Len(l) : l[i] = c
CountIn(l, c) == Cardinality({i \in 1..Len(l) : l[i] = c})
IndexOf(l, c) == CHOOSE i \in 1..Len(l) : l[i] = c

\* the call of process p was a wipe and has ended
WipeEnded(p) == pc[p] = "ret" /\ call[p].op = "wipe"

\* the wipe with the command log l got past its mount: it issued the delete
MountSucceeded(l) == Has(l, FindAll) \/ Has(l, FindKeepTrashcan)

\* both options of the volume v are off
SslOff(ssl, v) == ssl[v].client = "off" /\ ssl[v].server = "off"

\* C14: if the client-side TLS disable fails, or it succeeds and the
\* server-side TLS disable fails, the wipe aborts with WipeFailed at that
\* command: no scratch directory is created, no mount, delete, unmount or
\* TLS re-enable command runs and no restart is issued; the wipe gets to its
\* first restart only with both options off.
C14_DisableFailureAborts ==
    /\ [](\A p \in Procs :
            pc[p] = "w_restart1" => SslOff(vol_ssl, vol[p]))
    /\ [][\A p \in Procs :
             /\ (pc[p] = "w_client_off" /\ pc'[p] \notin {"w_client_off",
                                                          "w_server_off"}) =>
                    /\ pc'[p] = "ret" /\ result'[p] = "WipeFailed"
                    /\ log'[p] = <<"client.ssl off">>
             /\ (pc[p] = "w_client_off" /\ pc'[p] = "w_server_off") =>
                    vol_ssl'[vol[p]].client = "off"
             /\ (pc[p] = "w_server_off" /\ pc'[p] \notin {"w_server_off",
                                                          "w_restart1"}) =>
                    /\ pc'[p] = "ret" /\ result'[p] = "WipeFailed"
                    /\ log'[p] = <<"client.ssl off", "server.ssl off">>]_vars

\* C14 witness: a wipe has ended in the failure of its server-side disable,
\* after the two disable commands and with client.ssl off
C14_ServerDisableFailed ==
    \E p \in Procs :
        /\ WipeEnded(p) /\ result[p] = "WipeFailed"
        /\ log[p] = <<"client.ssl off", "server.ssl off">>
        /\ vol_ssl[vol[p]] = [client |-> "off", server |-> "on"]

\* C15 as stated: if the recursive delete fails after a successful mount,
\* the unmount and both TLS re-enable commands (server-side and client-side)
\* still run, and the wipe is reported as failed.
C15_DeleteFailureStillRestoresTls ==
    \A p \in Procs :
        (WipeEnded(p) /\ wiped[p] = "delete_raised") =>
            /\ Has(log[p], "umount")
            /\ Has(log[p], "server.ssl on")
            /\ Has(log[p], "client.ssl on")
            /\ result[p] = "WipeFailed"

\* C15 amended: if the recursive delete fails after a successful mount, the
\* unmount still runs (and the scratch directory is removed when the unmount
\* succeeds) and the wipe is reported as failed; no TLS re-enable command
\* and no second restart is issued, so that the volume is left with
\* client-side and server-side TLS off.
C15_DeleteFailureUnmountsOnly ==
    /\ [](\A p \in Procs :
            wiped[p] = "delete_raised" => pc[p] \in {"w_umount", "ret"})
    /\ [][\A p \in Procs :
             (/\ pc[p] = "w_umount" /\ pc'[p] # "w_umount"
              /\ wiped[p] = "delete_raised") =>
                 /\ pc'[p] = "ret" /\ result'[p] = "WipeFailed"
                 /\ Has(log'[p], "umount")
                 /\ ~Has(log'[p], "client.ssl on")
                 /\ ~Has(log'[p], "server.ssl on")
                 /\ CountIn(log'[p], "restart") = 1
                 /\ SslOff(vol_ssl', vol[p])]_vars

\* C15 witness: a wipe whose delete failed has ended after the unmount and
\* the removal of the scratch directory
C15_DeleteFailed ==
    \E p \in Procs :
        /\ WipeEnded(p) /\ wiped[p] = "delete_raised"
        /\ result[p] = "WipeFailed"
        /\ log[p] = <<"client.ssl off", "server.ssl off", "restart",
                      "mkdtemp", "mount", FindAll, "umount", "rmtree">>

\* C16 as stated: both TLS re-enable commands are attempted unconditionally:
\* a failure of the first re-enable command does not keep the second from
\* being issued, so a wipe that issued one of them has issued both when it
\* returns.
C16_BothReenablesAlwaysAttempted ==
    \A p \in Procs :
        (/\ WipeEnded(p)
         /\ Has(log[p], "client.ssl on") \/ Has(log[p], "server.ssl on")) =>
            Has(log[p], "client.ssl on") /\ Has(log[p], "server.ssl on")

\* C16 amended: in every wipe where the mount, the delete and the unmount
\* succeeded the client-side re-enable command is attempted; the server-side
\* re-enable command is attempted only when the client-side one succeeded;
\* a failure of either is reported as a failed wipe, with no second restart,
\* and a failed client-side re-enable leaves both options off.
C16_SecondReenableOnlyAfterFirst ==
    [][\A p \in Procs :
          /\ (pc[p] = "w_umount" /\ pc'[p] \notin {"w_umount", "ret"}) =>
                 pc'[p] = "w_client_on"
          /\ (pc[p] = "w_client_on" /\ pc'[p] \notin {"w_client_on",
                                                      "w_server_on"}) =>
                 /\ pc'[p] = "ret" /\ result'[p] = "WipeFailed"
                 /\ Has(log'[p], "client.ssl on")
                 /\ ~Has(log'[p], "server.ssl on")
                 /\ CountIn(log'[p], "restart") = 1
                 /\ SslOff(vol_ssl', vol[p])
          /\ (pc[p] = "w_client_on" /\ pc'[p] = "w_server_on") =>
                 vol_ssl'[vol[p]].client = "on"
          /\ (pc[p] = "w_server_on" /\ pc'[p] \notin {"w_server_on",
                                                      "w_restart2"}) =>
                 /\ pc'[p] = "ret" /\ result'[p] = "WipeFailed"
                 /\ CountIn(log'[p], "restart") = 1]_vars

\* C16 witness: a wipe has ended in the failure of its client-side
\* re-enable, the server-side one not issued and both options off
C16_ClientReenableFailed ==
    \E p \in Procs :
        /\ WipeEnded(p) /\ result[p] = "WipeFailed"
        /\ log[p][Len(log[p])] = "client.ssl on"
        /\ SslOff(vol_ssl, vol[p])

\* C17 as stated: the restore phase runs after the unmount and re-enables
\* server-side transport security first and client-side second, the disable
\* phase having run client-side first, server-side second.
C17_RestoreServerFirst ==
    \A p \in Procs :
        (/\ WipeEnded(p)
         /\ Has(log[p], "client.ssl on") /\ Has(log[p], "server.ssl on")) =>
            /\ IndexOf(log[p], "umount") < IndexOf(log[p], "server.ssl on")
            /\ IndexOf(log[p], "server.ssl on")
                   < IndexOf(log[p], "client.ssl on")
            /\ IndexOf(log[p], "client.ssl off")
                   < IndexOf(log[p], "server.ssl off")

\* C17 amended: the restore phase runs after the unmount and re-enables
\* client-side transport security first and server-side second, the same
\* order as the disable phase (client-side first, server-side second); each
\* of the four commands is issued at most once.
C17_RestoreClientFirst ==
    \A p \in Procs :
        (/\ WipeEnded(p)
         /\ Has(log[p], "client.ssl on") \/ Has(log[p], "server.ssl on")) =>
            /\ Has(log[p], "client.ssl on")
            /\ IndexOf(log[p], "umount") < IndexOf(log[p], "client.ssl on")
            /\ Has(log[p], "server.ssl on") =>
                   IndexOf(log[p], "client.ssl on")
                       < IndexOf(log[p], "server.ssl on")
            /\ IndexOf(log[p], "client.ssl off")
                   < IndexOf(log[p], "server.ssl off")
            /\ \A c \in {"client.ssl off", "server.ssl off",
                         "client.ssl on", "server.ssl on"} :
                   CountIn(log[p], c) <= 1

\* C17 witness: a wipe has succeeded; its ninth command set client.ssl on
\* and its tenth server.ssl on
C17_RestoredClientThenServer ==
    \E p \in Procs :
        /\ WipeEnded(p) /\ result[p] = "ok"
        /\ Len(log[p]) >= 10
        /\ log[p][7] = "umount"
        /\ log[p][9] = "client.ssl on"
        /\ log[p][10] = "server.ssl on"

\* C18 as stated: in every wipe where the mount succeeded, the unmount has
\* been attempted and the scratch mount directory has been removed by the
\* time the wipe returns, whichever later step fails, the unmount included.
C18_CleanupAlwaysRemovesDirectory ==
    \A p \in Procs :
        (WipeEnded(p) /\ MountSucceeded(log[p])) =>
            Has(log[p], "umount") /\ Has(log[p], "rmtree")

\* C18 amended: in every wipe where the mount succeeded, the unmount has
\* been attempted by the time the wipe returns, whichever later step fails;
\* the scratch mount directory has been removed if and only if the unmount
\* succeeded: when the unmount itself fails the wipe fails there and the
\* directory is left in place.
C18_DirectoryRemovedIffUnmounted ==
    /\ [](\A p \in Procs :
            (WipeEnded(p) /\ MountSucceeded(log[p])) =>
                /\ Has(log[p], "umount")
                /\ ~Has(log[p], "rmtree") =>
                       /\ log[p][Len(log[p])] = "umount"
                       /\ result[p] = "WipeFailed")
    /\ [][\A p \in Procs :
             (pc[p] = "w_umount" /\ pc'[p] # "w_umount") =>
                 \/ log'[p] = log[p] \o <<"umount", "rmtree">>
                 \/ /\ log'[p] = log[p] \o <<"umount">>
                    /\ pc'[p] = "ret"
                    /\ result'[p] = "WipeFailed"]_vars

\* C18 witness: a wipe has ended in the failure of its unmount, the scratch
\* directory not removed
C18_UnmountFailed ==
    \E p \in Procs :
        /\ WipeEnded(p) /\ result[p] = "WipeFailed"
        /\ log[p] = <<"client.ssl off", "server.ssl off", "restart",
                      "mkdtemp", "mount", FindAll, "umount">>

\* C19: a wipe in which every phase succeeds issues the restart exactly
\* twice: the first after both TLS-disable commands and before the mount,
\* the second after both TLS re-enable commands; between them the order is
\* mount, delete, unmount, scratch-directory removal, re-enable, re-enable.
C19_SuccessfulWipeRestartsTwice ==
    \A p \in Procs :
        (WipeEnded(p) /\ result[p] # "WipeFailed") =>
            /\ result[p] = "ok"
            /\ Len(log[p]) = 11
            /\ SubSeq(log[p], 1, 5) = <<"client.ssl off", "server.ssl off",
                                        "restart", "mkdtemp", "mount">>
            /\ log[p][6] \in {FindAll, FindKeepTrashcan}
            /\ SubSeq(log[p], 7, 8) = <<"umount", "rmtree">>
            /\ {log[p][9], log[p][10]} = {"client.ssl on", "server.ssl on"}
            /\ log[p][11] = "restart"
            /\ CountIn(log[p], "restart") = 2

\* C19 witness: a wipe has succeeded with eleven commands, two of them
\* restarts, the options of its volume on again
C19_WipeSucceeded ==
    \E p \in Procs :
        /\ WipeEnded(p) /\ result[p] = "ok"
        /\ Len(log[p]) = 11
        /\ CountIn(log[p], "restart") = 2
        /\ vol_ssl[vol[p]] = [client |-> "on", server |-> "on"]

\* C20: the delete step deletes everything beneath the mount point when the
\* version of the volume's server is 3.6 or lower, and spares exactly the
\* trash-can directory and its internal-operations subdirectory when it is
\* 3.7 or higher; the choice depends only on the version of the volume's own
\* server.
C20_DeleteSparesTrashcanFrom37 ==
    [][\A p \in Procs :
          (pc[p] = "w_delete" /\ pc'[p] # "w_delete") =>
              LET vers == glusterfs_versions[ServerOf(vol[p])]
                  cmd == log'[p][Len(log'[p])]
              IN  /\ Len(log'[p]) = Len(log[p]) + 1
                  /\ vers \in {<<"3", "5">>, <<"3", "6">>} => cmd = FindAll
                  /\ vers \in {<<"3", "7">>, <<"3", "10">>, <<"4", "0">>} =>
                         cmd = FindKeepTrashcan]_vars

\* C20 witness: a wipe of the volume of host2, which runs 3.10 while host1
\* runs 3.6, has spared the trash-can directories
C20_TrashcanSparedOn310 ==
    \E p \in Procs :
        /\ WipeEnded(p) /\ vol[p] = "v2"
        /\ glusterfs_versions["host1"] = <<"3", "6">>
        /\ glusterfs_versions["host2"] = <<"3", "10">>
        /\ Has(log[p], FindKeepTrashcan)

\* the version of the server of the volume process p works on
VersionOf(p) == numreduct(glusterfs_versions[ServerOf(vol[p])])

\* process p is about to run create_snapshot on a volume with / without a
\* marker in gluster_nosnap_vols_dict
SnapMarked(p) == pc[p] = "sn_create" /\ vol[p] \in gluster_nosnap_vols_dict
SnapUnmarked(p) == pc[p] = "sn_create" /\ vol[p] \notin gluster_nosnap_vols_dict

\* C21: createSnapshot on a volume that has a NoSnapCache marker fails
\* without issuing any remote command; the failure is SnapshotFailed when the
\* version of the server is below 3.7, the first version with snapshots, and
\* SnapshotNotSupported otherwise.
C21_MarkerFailsWithoutCommand ==
    [][\A p \in Procs :
          SnapMarked(p) =>
              /\ log'[p] = log[p]
              /\ result'[p] = IF TupleLess(VersionOf(p), <<3, 7>>)
                              THEN "SnapshotFailed"
                              ELSE "SnapshotNotSupported"]_vars

\* a create_snapshot on a marked volume of a 3.6 server has failed hard
C21_MarkedFailedHard ==
    \E p \in Procs :
        /\ pc[p] = "ret" /\ call[p].op = "create_snapshot"
        /\ vol[p] \in gluster_nosnap_vols_dict
        /\ log[p] = <<>>
        /\ result[p] = "SnapshotFailed"

\* C22 as stated: createSnapshot on a volume with no marker issues exactly
\* one create command; return code 0 gives success; nonzero with the
\* feature-absent error code caches the marker and fails with
\* SnapshotNotSupported; any other nonzero result fails with SnapshotFailed
\* and caches nothing.
C22_FeatureAbsentAlwaysSoft ==
    [][\A p \in Procs :
          SnapUnmarked(p) =>
              /\ log'[p] = Append(log[p], "snapshot create")
              /\ xml_out'[p].opRet = 0 =>
                     /\ result'[p] = "ok"
                     /\ gluster_nosnap_vols_dict' = gluster_nosnap_vols_dict
              /\ xml_out'[p].opRet # 0 /\ xml_out'[p].opErrno = 0 =>
                     /\ result'[p] = "SnapshotNotSupported"
                     /\ gluster_nosnap_vols_dict' =
                            gluster_nosnap_vols_dict \cup {vol[p]}
              /\ xml_out'[p].opRet # 0 /\ xml_out'[p].opErrno # 0 =>
                     /\ result'[p] = "SnapshotFailed"
                     /\ gluster_nosnap_vols_dict' = gluster_nosnap_vols_dict]_vars

\* C22 amended: as stated, except that the feature-absent result caches the
\* marker and fails with SnapshotNotSupported only when the version of the
\* server is 3.7 or higher; on a lower version it fails with SnapshotFailed
\* and caches nothing.
C22_FeatureAbsentSoftFrom37 ==
    [][\A p \in Procs :
          SnapUnmarked(p) =>
              LET soft == /\ xml_out'[p].opErrno = 0
                          /\ ~TupleLess(VersionOf(p), <<3, 7>>)
              IN  /\ log'[p] = Append(log[p], "snapshot create")
                  /\ xml_out'[p].opRet = 0 =>
                         /\ result'[p] = "ok"
                         /\ gluster_nosnap_vols_dict' = gluster_nosnap_vols_dict
                  /\ xml_out'[p].opRet # 0 /\ soft =>
                         /\ result'[p] = "SnapshotNotSupported"
                         /\ gluster_nosnap_vols_dict' =
                                gluster_nosnap_vols_dict \cup {vol[p]}
                  /\ xml_out'[p].opRet # 0 /\ ~soft =>
                         /\ result'[p] = "SnapshotFailed"
                         /\ gluster_nosnap_vols_dict' =
                                gluster_nosnap_vols_dict]_vars

\* a create command on a 3.6 server came back feature-absent and the call
\* failed hard
C22_FeatureAbsentBelow37 ==
    \E p \in Procs :
        /\ pc[p] = "ret" /\ call[p].op = "create_snapshot"
        /\ log[p] = <<"snapshot create">>
        /\ xml_out[p] = [opRet |-> -1, opErrno |-> 0]
        /\ TupleLess(VersionOf(p), <<3, 7>>)
        /\ result[p] = "SnapshotFailed"
        /\ vol[p] \notin gluster_nosnap_vols_dict

\* C23 as stated: createSnapshot on a volume whose server version is below
\* the minimum version supporting snapshots fails with no remote call.
C23_BelowMinimumNoRemoteCall ==
    [][\A p \in Procs :
          pc[p] = "sn_create" /\ TupleLess(VersionOf(p), <<3, 7>>) =>
              /\ log'[p] = log[p]
              /\ result'[p] # "ok"]_vars

\* C23 amended: createSnapshot on a volume whose server version is below the
\* minimum version supporting snapshots fails with no remote call when the
\* volume has a NoSnapCache marker, and otherwise issues the create command
\* and succeeds exactly when it returns 0; every failure below the minimum is
\* the hard SnapshotFailed, and a failure by marker or feature-absent result
\* at or above the minimum is the soft SnapshotNotSupported.
C23_BelowMinimumFailsHard ==
    [][\A p \in Procs :
          /\ SnapMarked(p) => log'[p] = log[p] /\ result'[p] # "ok"
          /\ SnapUnmarked(p) =>
                 /\ log'[p] = Append(log[p], "snapshot create")
                 /\ result'[p] = "ok" <=> xml_out'[p].opRet = 0
          /\ pc[p] = "sn_create" /\ TupleLess(VersionOf(p), <<3, 7>>) =>
                 result'[p] \in {"ok", "SnapshotFailed"}
          /\ /\ pc[p] = "sn_create"
             /\ ~TupleLess(VersionOf(p), <<3, 7>>)
             /\ xml_out'[p] = [opRet |-> -1, opErrno |-> 0]
             => result'[p] = "SnapshotNotSupported"]_vars

\* a snapshot was created on a 3.6 server
C23_CreatedBelowMinimum ==
    \E p \in Procs :
        /\ pc[p] = "ret" /\ call[p].op = "create_snapshot"
        /\ TupleLess(VersionOf(p), <<3, 7>>)
        /\ log[p] = <<"snapshot create">>
        /\ result[p] = "ok"

\* process p is about to list the snapshots of its volume for delete_snapshot
DeleteLists(p) == pc[p] = "sn_list" /\ call[p].op = "delete_snapshot"

InClone(p) == call[p].op = "create_share_from_snapshot"

\* the commands of a create_share_from_snapshot of process p, in order
CloneCommands(p) ==
    <<"snapshot list", "old: snapshot activate force",
      "old: snapshot clone manila-" \o call[p].share_id,
      "new: get auth.ssl-allow", "new: set auth.ssl-allow",
      "new: volume start">>

\* C25: createShareFromSnapshot on a source volume whose server version is
\* below 3.7 fails before any remote work: no snapshot listing, no activate,
\* no clone and no command on the new volume is issued, and the used set and
\* the version map are unchanged.
C25_LowVersionFailsBeforeRemoteWork ==
    [][\A p \in Procs :
          /\ call'[p].op = "create_share_from_snapshot"
          /\ TupleLess(numreduct(glusterfs_versions[ServerOf(vol'[p])]),
                       <<3, 7>>)
          => /\ pc'[p] = "ret"
             /\ result'[p] = "SnapshotFailed"
             /\ log'[p] = <<>>
             /\ gluster_used_vols' = gluster_used_vols
             /\ glusterfs_versions' = glusterfs_versions]_vars

\* a create_share_from_snapshot on a server below 3.7 has failed
C25_CloneRefused ==
    \E p \in Procs :
        /\ pc[p] = "ret" /\ InClone(p)
        /\ TupleLess(VersionOf(p), <<3, 7>>)
        /\ result[p] = "SnapshotFailed"
        /\ log[p] = <<>>

\* C26: createShareFromSnapshot issues its commands in this order: snapshot
\* listing, forced activate and clone on the old volume, then the ACL
\* baseline and the start of the new volume; a failed command ends the call,
\* so no command on the new volume is issued before the clone succeeded, and
\* the new identity is registered as used only with all of them done.
C26_CloneStepsInOrder ==
    [][\A p \in Procs :
          InClone(p) /\ pc[p] # "ret" =>
              /\ \E n \in 0..Len(CloneCommands(p)) :
                     log'[p] = SubSeq(CloneCommands(p), 1, n)
              /\ result'[p] \in {"SnapshotFailed", "AmbiguousSnapshot"}
                     => pc'[p] = "ret"
              /\ gluster_used_vols' # gluster_used_vols =>
                     /\ log'[p] = CloneCommands(p)
                     /\ result'[p] = NewLocation(ServerOf(vol[p]),
                                                 call[p].share_id)
                     /\ gluster_used_vols' =
                            gluster_used_vols \cup {result'[p]}]_vars

\* a share was created from a snapshot and its volume registered
C26_CloneRegistered ==
    \E p \in Procs :
        /\ pc[p] = "ret" /\ InClone(p)
        /\ log[p] = CloneCommands(p)
        /\ result[p] \in gluster_used_vols \cap NewLocations

\* C27: every step of a createShareFromSnapshot that does not return the new
\* identity, so every step of a call failing at the activate, clone,
\* ACL-baseline or start step, leaves the used set, the pool and the version
\* map as they were before the call.
C27_FailedCloneLeavesBookkeeping ==
    [][\A p \in Procs :
          InClone(p) /\ result'[p] \notin NewLocations =>
              /\ gluster_used_vols' = gluster_used_vols
              /\ voldict' = voldict
              /\ glusterfs_versions' = glusterfs_versions
              /\ DOMAIN glusterfs_versions' = Servers]_vars

\* the start of a new volume failed and its identity is not in the used set
C27_StartFailed ==
    \E p \in Procs :
        /\ pc[p] = "ret" /\ InClone(p)
        /\ log[p] = CloneCommands(p)
        /\ result[p] = "SnapshotFailed"
        /\ NewLocation(ServerOf(vol[p]), call[p].share_id)
               \notin gluster_used_vols

\* process p runs do_setup / _fetch_gluster_volumes on its own
InSetup(p) == call[p].op = "do_setup"
InFetch(p) == call[p].op = "_fetch_gluster_volumes"

\* process p has asked some server for its volumes
ListingIssued(p) == \E s \in Servers : Has(log[p], "volume list " \o s)

\* the versions process p was given include one below the minimum
BelowMinimumFetched(p) ==
    /\ \A s \in Servers : setup_versions[p][s] \in VersionStrs
    /\ \E s \in Servers : TupleLess(numreduct(setup_versions[p][s]), <<3, 6>>)

\* C28: setup fails with UnsupportedBackendVersion when the version fetched
\* from any server is below the minimum 3.6, and it does so before any volume
\* is touched: no volume listing and no volume command has been issued, and
\* the versions are not taken over by the driver.
C28_BelowMinimumFailsBeforeListing ==
    [][\A p \in Procs :
          pc[p] = "su_check" /\ BelowMinimumFetched(p) =>
              /\ pc'[p] = "ret"
              /\ result'[p] = "UnsupportedBackendVersion"
              /\ log'[p] = <<"version host1", "version host2">>
              /\ ~ListingIssued(p)'
              /\ glusterfs_versions' = glusterfs_versions
              /\ fetch_ret'[p] = NoReturn]_vars

\* a do_setup has failed on a server running 3.5
C28_SetupRefused ==
    \E p \in Procs :
        /\ pc[p] = "ret" /\ InSetup(p)
        /\ BelowMinimumFetched(p)
        /\ result[p] = "UnsupportedBackendVersion"

\* the version query of process p failed for some server
VersionQueryFailed(p) ==
    \/ \E s \in Servers : setup_versions[p][s] = VersionFailed
    \/ result[p] = "RuntimeError"

\* C29: setup asks no server for its version twice, and every server once
\* unless a failure that is not a GlusterfsException has ended it; if the
\* query failed for any server setup fails as a whole: it ends with a
\* failure, the driver takes over no versions and no volume listing is
\* issued, whatever the other servers answered.
C29_VersionQueryOnceAndFatal ==
    [][\A p \in Procs :
          InSetup(p) =>
              /\ \A s \in Servers : CountIn(log'[p], "version " \o s) <= 1
              /\ pc'[p] \in {"su_check", "fetch"} =>
                     \A s \in Servers : CountIn(log'[p], "version " \o s) = 1
              /\ VersionQueryFailed(p)' =>
                     /\ pc'[p] \in {"su_version", "su_check", "ret", "idle"}
                     /\ glusterfs_versions' = glusterfs_versions
                     /\ ~ListingIssued(p)'
                     /\ fetch_ret'[p] = NoReturn
              /\ VersionQueryFailed(p) /\ pc[p] = "su_check" =>
                     pc'[p] = "ret" /\ result'[p] = "BackendUnavailable"]_vars

\* do_setup failed on the query of host2 although host1 had answered
C29_SecondServerFailed ==
    \E p \in Procs :
        /\ pc[p] = "ret" /\ InSetup(p)
        /\ setup_versions[p]["host1"] \in VersionStrs
        /\ setup_versions[p]["host2"] = VersionFailed
        /\ result[p] = "BackendUnavailable"
        /\ glusterfs_versions = NoVersions

\* C30: a refresh that succeeds has asked every server for its volumes once
\* and returns all that matched; if the listing of any server fails the
\* refresh fails with BackendUnavailable and returns nothing, whatever it has
\* collected from the servers listed before.
C30_RefreshAllOrNothing ==
    \A p \in Procs :
        InFetch(p) /\ pc[p] = "ret" =>
            IF result[p] = "ok"
            THEN /\ \A s \in Servers :
                        CountIn(log[p], "volume list " \o s) = 1
                 /\ fetch_ret[p] = [returned |-> TRUE, vols |-> fetched[p]]
            ELSE /\ result[p] = "BackendUnavailable"
                 /\ fetch_ret[p] = NoReturn

\* the listing of host2 failed after host1 had listed a volume
C30_SecondListingFailed ==
    \E p \in Procs :
        /\ pc[p] = "ret" /\ InFetch(p)
        /\ log[p] = <<"volume list host1", "volume list host2">>
        /\ fetched[p] # {}
        /\ result[p] = "BackendUnavailable"
        /\ fetch_ret[p] = NoReturn

\* the error kinds of the driver, and what a call returns when it succeeds
DomainKinds ==
    {"BackendUnavailable", "PoolExhausted", "VolumeSetupFailed",
     "VolumeNotManaged", "AccessUpdateFailed", "InvalidAccessType",
     "WipeFailed", "SnapshotFailed", "SnapshotNotSupported",
     "AmbiguousSnapshot", "UnsupportedBackendVersion"}
Successes == {"ok"} \cup Vols \cup NewLocations

\* C31 as stated: every failure inside an operation is reported to the caller
\* as one of the domain error kinds; a raw transport or process error never
\* escapes an operation.
C31_NoRawErrorEscapes ==
    \A p \in Procs :
        pc[p] = "ret" => result[p] \in DomainKinds \cup Successes

\* C31 amended: every failure inside an operation is reported to the caller
\* as one of the domain error kinds, except that a failure of a version query
\* of setup that is not a domain error is passed on to the caller of setup as
\* it was raised, before any volume listing.
C31_RawErrorOnlyFromVersionQuery ==
    \A p \in Procs :
        pc[p] = "ret" =>
            \/ result[p] \in DomainKinds \cup Successes
            \/ /\ result[p] = "RuntimeError"
               /\ InSetup(p)
               /\ log[p] # <<>>
               /\ \E s \in Servers : log[p][Len(log[p])] = "version " \o s
               /\ ~ListingIssued(p)

\* the version query of host2 raised RuntimeError and do_setup ended with it
C31_RuntimeErrorEscaped ==
    \E p \in Procs :
        /\ pc[p] = "ret" /\ InSetup(p)
        /\ log[p] = <<"version host1", "version host2">>
        /\ result[p] = "RuntimeError"

\* C32: host_passes returns true when the filter properties carry no retry
\* record or an empty one, and otherwise exactly when the host is not in the
\* record's list of tried hosts, a missing list counting as empty; the call
\* changes neither the filter properties nor the host state.
C32_PassesIffNotTried ==
    [][/\ filter_properties' = filter_properties
       /\ host_state' = host_state
       /\ passes_ret'.returned =>
             LET props == filter_properties
                 record == "retry" \in props.keys /\ ~props.retry.none
                 tried == IF record /\ "hosts" \in props.retry.keys
                          THEN {props.retry.hosts[i] :
                                    i \in 1..Len(props.retry.hosts)}
                          ELSE {}
             IN  passes_ret'.value =
                     IF ~record \/ props.retry.keys = {} THEN TRUE
                     ELSE host_state.host \notin tried]_vars

\* the filter passed a host for a retry record that has no list of hosts
C32_PassedWithoutList ==
    /\ passes_ret = [returned |-> TRUE, value |-> TRUE]
    /\ filter_properties.keys = {"retry"}
    /\ filter_properties.retry.keys = {"num_attempts"}

\* C33: acquire(s) with a size s finds a volume exactly when some free volume
\* is unsized or has a size greater than or equal to s, and acquire with no
\* size whenever any volume is free; it fails for want of a volume only when
\* no volume is free or every free volume is sized below s.
C33_SucceedsIffSomeVolumeFits ==
    \A p \in Procs :
        PopDecided(p) =>
            LET s == call[p].size
                fits == \E v \in free_at[p] :
                            IF s = NoSize THEN TRUE
                            ELSE voldict[v] = NoSize \/ voldict[v] >= s
            IN  /\ result[p] \in Vols <=> fits
                /\ result[p] = "PoolExhausted" <=> ~fits
                /\ result[p] \in Vols => result[p] \in free_at[p]

\* a larger volume served a request when no free volume was unsized or of
\* the requested size
C33_OnlyLargerVolumesFree ==
    \E p \in Procs :
        /\ PopDecided(p)
        /\ call[p].size # NoSize
        /\ free_at[p] # {}
        /\ \A v \in free_at[p] : voldict[v] > call[p].size
        /\ result[p] \in free_at[p]

\* the commands of a wipe up to its mount
WipeToMount == <<"client.ssl off", "server.ssl off", "restart", "mkdtemp",
                 "mount">>

\* C34: if the mount of a wipe fails after both TLS-disable commands and the
\* first restart succeeded, the scratch directory is removed, no delete and
\* no unmount is attempted, no TLS re-enable command and no second restart
\* is issued, and the wipe is reported as failed.
C34_MountFailureRemovesDirectoryOnly ==
    [][\A p \in Procs :
          pc[p] = "w_mount" /\ pc'[p] # "w_delete" =>
              /\ pc'[p] = "ret"
              /\ result'[p] = "WipeFailed"
              /\ log'[p] = Append(WipeToMount, "rmtree")
              /\ vol_ssl' = vol_ssl
              /\ SslOff(vol_ssl', vol[p])]_vars

\* a wipe has ended in the failure of its mount
C34_MountFailed ==
    \E p \in Procs :
        /\ WipeEnded(p) /\ result[p] = "WipeFailed"
        /\ log[p] = Append(WipeToMount, "rmtree")
        /\ SslOff(vol_ssl, vol[p])

\* C35: when a wipe aborts because the server-side TLS disable fails after
\* the client-side TLS disable succeeded, the only commands of the wipe are
\* the two disable commands: client-side TLS is not re-enabled and the volume
\* is left with client-side TLS off and server-side TLS as it was.
C35_ClientTlsStaysOff ==
    /\ [](\A p \in Procs :
            WipeEnded(p) /\ Len(log[p]) = 2
            => /\ log[p] = <<"client.ssl off", "server.ssl off">>
               /\ vol_ssl[vol[p]].client = "off"
               /\ result[p] = "WipeFailed")
    /\ [][\A p \in Procs :
             pc[p] = "w_server_off" /\ pc'[p] = "ret" =>
                 /\ log'[p] = <<"client.ssl off", "server.ssl off">>
                 /\ vol_ssl' = vol_ssl
                 /\ vol_ssl[vol[p]].client = "off"]_vars

\* a wipe has ended after its two disable commands, with client.ssl off and
\* server.ssl still on
C35_AbortedWithClientTlsOff ==
    \E p \in Procs :
        /\ WipeEnded(p)
        /\ ~Has(log[p], "client.ssl on")
        /\ Len(log[p]) = 2
        /\ vol_ssl[vol[p]].client = "off" /\ vol_ssl[vol[p]].server = "on"

\* C36: no step removes a NoSnapCache marker; a createSnapshot on a marked
\* volume issues no command and fails soft; a createSnapshot that fails soft
\* leaves the volume marked, one that fails with SnapshotFailed or succeeds
\* leaves it unmarked, and a createSnapshot on an unmarked volume issues the
\* create command.
C36_MarkerStaysAndShortCircuits ==
    [][/\ gluster_nosnap_vols_dict \subseteq gluster_nosnap_vols_dict'
       /\ \A p \in Procs :
             /\ SnapMarked(p) =>
                    /\ log'[p] = log[p]
                    /\ result'[p] = "SnapshotNotSupported"
             /\ SnapUnmarked(p) =>
                    /\ log'[p] = Append(log[p], "snapshot create")
                    /\ result'[p] = "SnapshotNotSupported"
                           <=> vol[p] \in gluster_nosnap_vols_dict'
                    /\ gluster_nosnap_vols_dict' \subseteq
                           gluster_nosnap_vols_dict \cup {vol[p]}]_vars

\* a later create_snapshot on a marked volume has failed without a command
C36_ShortCircuited ==
    \E p \in Procs :
        /\ pc[p] = "ret" /\ call[p].op = "create_snapshot"
        /\ log[p] = <<>>
        /\ result[p] = "SnapshotNotSupported"
        /\ vol[p] \in gluster_nosnap_vols_dict

\* C37: once the versions are resolved, no step of a create_snapshot,
\* delete_snapshot or create_share_from_snapshot call, successful or failed,
\* changes the version of a server or the set of servers the version map has
\* an entry for.
C37_VersionMapIsFrozen ==
    [][/\ glusterfs_versions' = glusterfs_versions
       /\ DOMAIN glusterfs_versions' = DOMAIN glusterfs_versions]_vars

\* a clone has registered a new export location that the version map has no
\* entry for
C37_CloneRegisteredNoVersionEntry ==
    \E p \in Procs :
        /\ pc[p] = "ret" /\ InClone(p)
        /\ result[p] \in gluster_used_vols \cap NewLocations
        /\ DOMAIN glusterfs_versions = Servers
        /\ result[p] \notin DOMAIN glusterfs_versions

\* every server answered the version query of process p with a version that
\* is not below the minimum
VersionsAccepted(p) ==
    \A s \in Servers :
        /\ setup_versions[p][s] \in VersionStrs
        /\ ~TupleLess(numreduct(setup_versions[p][s]), GLUSTERFS_VERSION_MIN)

\* C38: setup issues a volume listing only with the versions of all servers
\* accepted and lists no server twice; when the refresh has returned, every
\* server was listed once, and setup succeeds exactly when the refresh
\* returned some volume: with no volume at all it fails with
\* BackendUnavailable and goes no further.
C38_EmptyRefreshFailsSetup ==
    \A p \in Procs :
        InSetup(p) =>
            /\ ListingIssued(p) \/ pc[p] = "fetch" => VersionsAccepted(p)
            /\ \A s \in Servers : CountIn(log[p], "volume list " \o s) <= 1
            /\ fetch_ret[p].returned =>
                   /\ pc[p] = "ret"
                   /\ \A s \in Servers :
                          CountIn(log[p], "volume list " \o s) = 1
                   /\ IF fetch_ret[p].vols = {}
                      THEN /\ result[p] = "BackendUnavailable"
                           /\ ~Has(log[p], "mount.glusterfs")
                      ELSE result[p] = "ok"
            /\ pc[p] = "ret" /\ result[p] = "ok" =>
                   fetch_ret[p].returned /\ fetch_ret[p].vols # {}

\* do_setup failed on an empty pool although all versions were accepted
C38_NoVolumeProvided ==
    \E p \in Procs :
        /\ pc[p] = "ret" /\ InSetup(p)
        /\ VersionsAccepted(p)
        /\ fetch_ret[p] = [returned |-> TRUE, vols |-> {}]
        /\ result[p] = "BackendUnavailable"

\* the access update of process p has written its list, or has found nothing
\* to write, and has not failed
UpdateApplied(p) ==
    /\ call[p].op \in {"allow_access", "deny_access"}
    /\ call[p].access_type = "cert"
    /\ \/ pc[p] = "acc_restart"
       \/ pc[p] = "ret" /\ result[p] = "ok"

\* C39: with two workers updating the access of one volume, each for its own
\* principal, no update is lost: from the moment an update has been applied
\* until its caller takes the result, the stored allow-list holds the
\* principal exactly when the update was an allow, whatever the other worker
\* has done meanwhile; the list holds no principal twice and keeps the
\* principal neither worker touches.
C39_NoLostUpdate ==
    /\ \A p \in Procs :
          UpdateApplied(p) =>
              (InList(Split(ssl_allow_opt["v1"]), Str(PrincipalOf(p)))
                  <=> call[p].op = "allow_access")
    /\ NoDuplicate(Split(ssl_allow_opt["v1"]))
    /\ InList(Split(ssl_allow_opt["v1"]), Str("cn0"))

\* both workers have returned from an allow that wrote the list
C39_BothAllowed ==
    /\ \A p \in Procs :
          /\ pc[p] = "ret" /\ result[p] = "ok"
          /\ call[p].op = "allow_access"
          /\ log[p] = <<"get", "set", "restart">>
    /\ InList(Split(ssl_allow_opt["v1"]), Str("cn1"))
    /\ InList(Split(ssl_allow_opt["v1"]), Str("cn2"))

\* process p runs _setup_gluster_vol
InVolSetup(p) == call[p].op = "_setup_gluster_vol"

\* the commands of a setup that goes through
VolSetupCommands ==
    <<"get", "nfs.export-volumes off", "client.ssl on", "server.ssl on",
      "restart">>

====
